---- MODULE Spec2Model ----
(***************************************************************************)
(* Rhyolite API: the kind / edge-kind registry, the node, edge and         *)
(* attachment stores of src/server.py over the relations of                *)
(* src/datamodel.py.                                                       *)
(*                                                                         *)
(* Every request handler runs in its own database session (get_db).  The   *)
(* session is created with autoflush=False, so a handler's reads are       *)
(* separate statements and all of its writes reach the database inside     *)
(* db.commit().  A handler is therefore a short sequence of steps, one per *)
(* statement; steps of different requests interleave.  The store's         *)
(* constraints (primary keys, foreign keys with RESTRICT / CASCADE, NOT    *)
(* NULL) are evaluated by the commit step against the committed rows.      *)
(***************************************************************************)
EXTENDS Integers, Sequences, FiniteSets, TLC

\* ------------------------------------------------------------------ bounds
NumProcs == 2
MaxNodes == 2
MaxAtts  == 1
MaxClock == 1

Procs     == 1..NumProcs
NodeIds   == 1..MaxNodes
AttIds    == 1..MaxAtts
KindNames == {"a", "b"}
Relations == {"link"}

\* ------------------------------------------------------------ JSON values
Str(chars) == [t |-> "string",  s |-> chars, b |-> FALSE, n |-> 0]
Bool(v)    == [t |-> "boolean", s |-> <<>>,  b |-> v,     n |-> 0]
Num(v)     == [t |-> "number",  s |-> <<>>,  b |-> FALSE, n |-> v]
Null       == [t |-> "null",    s |-> <<>>,  b |-> FALSE, n |-> 0]
\* a list with its items, and a dict with its key / value pairs in insertion
\* order
Arr(items) == [t |-> "array",  s |-> <<>>, b |-> FALSE, n |-> 0, a |-> items]
Obj(pairs) == [t |-> "object", s |-> <<>>, b |-> FALSE, n |-> 0, o |-> pairs]

Ada == <<"A", "d", "a">>

\* payloads a client sends (NodeCreate.payload / NodeUpdate.payload): a
\* person, the same person switched off, and a payload with a name only
PayloadOn       == [name |-> Str(Ada), is_active |-> Bool(TRUE)]
PayloadOff      == [name |-> Str(Ada), is_active |-> Bool(FALSE)]
PayloadNameOnly == [name |-> Str(<<"X">>)]
Payloads        == {PayloadOn, PayloadOff, PayloadNameOnly}

\* the column nodes.payload is JSONB: the dict is written as a JSON object,
\* which JSONB keeps as its key / value pairs ordered by key length and then
\* by key, and reading the column builds the dict again from the pairs
JsonbKeyOrder == <<"bio", "name", "profile", "is_active">>

Jsonb_FirstPairOnly(payload) ==
  LET keys == SelectSeq(JsonbKeyOrder, LAMBDA k : k \in DOMAIN payload)
  IN  [i \in 1..1 |-> <<keys[i], payload[keys[i]]>>]

Jsonb(payload) ==
  LET keys == SelectSeq(JsonbKeyOrder, LAMBDA k : k \in DOMAIN payload)
  IN  [i \in 1..Len(keys) |-> <<keys[i], payload[keys[i]]>>]

FromJsonb(pairs) ==
  [k \in {pairs[i][1] : i \in DOMAIN pairs} |->
     pairs[CHOOSE i \in DOMAIN pairs : pairs[i][1] = k][2]]

\* schemas a client registers (KindCreate.schema): {"type": "object"}, and
\* an object schema with typed properties and the required keys name and
\* is_active
SchemaObject == [required |-> {}, properties |-> [k \in {} |-> "string"]]
SchemaPerson == [required   |-> {"name", "is_active"},
                 properties |-> [name |-> "string", is_active |-> "boolean"]]
Schemas      == {SchemaObject, SchemaPerson}

\* ------------------------------------------------------- schema validator
\* the characters of the rendered errors, in code point order
Ascii ==
  <<"\n", " ", "'", "0", "1", "2", "3", "4", "5", "6", "7", "8", "9", ":",
    "A", "F", "T", "X", "[", "]", "_", "a", "b", "c", "d", "e", "f", "g",
    "h", "i", "l", "m", "n", "o", "p", "q", "r", "s", "t", "u", "v", "y">>

Code(c) == CHOOSE i \in 1..Len(Ascii) : Ascii[i] = c

KeyChars ==
  [name      |-> <<"n", "a", "m", "e">>,
   is_active |-> <<"i", "s", "_", "a", "c", "t", "i", "v", "e">>,
   profile   |-> <<"p", "r", "o", "f", "i", "l", "e">>,
   bio       |-> <<"b", "i", "o">>]

TypeChars ==
  [string  |-> <<"s", "t", "r", "i", "n", "g">>,
   boolean |-> <<"b", "o", "o", "l", "e", "a", "n">>,
   number  |-> <<"n", "u", "m", "b", "e", "r">>]

Digits == <<"0", "1", "2", "3", "4", "5", "6", "7", "8", "9">>

Quoted(chars) == <<"'">> \o chars \o <<"'">>

\* repr(instance), as the messages of jsonschema render it with %r
Repr(v) ==
  IF v.t = "string" THEN Quoted(v.s)
  ELSE IF v.t = "boolean"
  THEN (IF v.b THEN <<"T", "r", "u", "e">> ELSE <<"F", "a", "l", "s", "e">>)
  ELSE <<Digits[v.n + 1]>>

IsRequired ==
  <<" ", "i", "s", " ", "a", " ", "r", "e", "q", "u", "i", "r", "e", "d",
    " ", "p", "r", "o", "p", "e", "r", "t", "y">>

IsNotOfType ==
  <<" ", "i", "s", " ", "n", "o", "t", " ", "o", "f", " ", "t", "y", "p",
    "e", " ">>

FailedValidating ==
  <<"\n", "\n", "F", "a", "i", "l", "e", "d", " ", "v", "a", "l", "i", "d",
    "a", "t", "i", "n", "g", " ">>

InSchema ==
  <<" ", "i", "n", " ", "s", "c", "h", "e", "m", "a">>

\* schema['properties']['name']: the schema path without its last element
RECURSIVE Indexed(_)
Indexed(path) ==
  IF path = <<>> THEN <<>>
  ELSE <<"[">> \o Quoted(IF Head(path) = "properties"
                         THEN <<"p", "r", "o", "p", "e", "r", "t", "i", "e",
                                "s">>
                         ELSE KeyChars[Head(path)])
       \o <<"]">> \o Indexed(Tail(path))

\* a ValidationError of jsonschema: the keyword, the message and the paths
RequiredError(k) ==
  [validator |-> <<"r", "e", "q", "u", "i", "r", "e", "d">>,
   message |-> Quoted(KeyChars[k]) \o IsRequired,
   path |-> <<>>, schema_path |-> <<"required">>]

TypeError(k, instance, type) ==
  [validator |-> <<"t", "y", "p", "e">>,
   message |-> Repr(instance) \o IsNotOfType \o Quoted(TypeChars[type]),
   path |-> <<k>>, schema_path |-> <<"properties", k, "type">>]

IterErrors_TypesOnly(schema, payload) ==
  {TypeError(k, payload[k], schema.properties[k]) :
     k \in {j \in DOMAIN payload \cap DOMAIN schema.properties :
              payload[j].t # schema.properties[j]}}

\* validator.iter_errors(payload): one error per missing required key and
\* one per present property whose value has another type
IterErrors(schema, payload) ==
  {RequiredError(k) : k \in schema.required \ DOMAIN payload}
  \cup
  {TypeError(k, payload[k], schema.properties[k]) :
     k \in {j \in DOMAIN payload \cap DOMAIN schema.properties :
              payload[j].t # schema.properties[j]}}

\* iter_errors is a generator whose order jsonschema does not promise: the
\* orders in which it can yield a set of errors
Orders(errs) ==
  {ord \in [1..Cardinality(errs) -> errs] :
     \A i, j \in DOMAIN ord : i # j => ord[i] # ord[j]}

\* str(err): the message, then the keyword and the place in the schema (the
\* text goes on with the schema and the instance, the same for two errors
\* that agree so far)
ErrorStr(e) ==
  e.message \o FailedValidating \o Quoted(e.validator) \o InSchema
  \o Indexed(SubSeq(e.schema_path, 1, Len(e.schema_path) - 1)) \o <<":">>

\* a < b for two strings: code point by code point
StrLess_FirstCharOnly(a, b) == Code(a[1]) < Code(b[1])

StrLess(a, b) ==
  \E i \in 1..Len(b) :
    /\ i <= Len(a) + 1
    /\ \A j \in 1..(i - 1) : a[j] = b[j]
    /\ i = Len(a) + 1 \/ Code(a[i]) < Code(b[i])

ErrBefore(e, f) == StrLess(ErrorStr(e), ErrorStr(f))

\* sorted(errors, key=str): the sort is stable, errors with equal keys keep
\* the order in which they came
RECURSIVE Inserted(_, _)
Inserted(sorted, e) ==
  IF sorted = <<>> THEN <<e>>
  ELSE IF ErrBefore(e, sorted[Len(sorted)])
  THEN Inserted(SubSeq(sorted, 1, Len(sorted) - 1), e)
       \o <<sorted[Len(sorted)]>>
  ELSE sorted \o <<e>>

RECURSIVE SortErrors(_)
SortErrors(errs) ==
  IF errs = <<>> THEN <<>>
  ELSE Inserted(SortErrors(SubSeq(errs, 1, Len(errs) - 1)), errs[Len(errs)])

\* the dict appended for each error
ErrorDict(err) ==
  [message |-> err.message, path |-> err.path,
   schema_path |-> err.schema_path]

ErrorDicts(errs) == [i \in DOMAIN errs |-> ErrorDict(errs[i])]

_validate_payload(schema, payload) ==
  ErrorDicts(SortErrors(CHOOSE ord \in Orders(IterErrors(schema, payload)) :
                          TRUE))

\* ------------------------------------------------------------------ state
VARIABLES
  kinds,          \* relation kinds: name -> schema
  edges_kinds,    \* relation edges_kinds: set of <<from_kind, to_kind, relation>>
  nodes,          \* relation nodes: id -> [kind, payload (JSONB), created_at,
                  \*                        updated_at]
  edges,          \* relation edges: set of <<from_id, to_id, relation>>
  attachments,    \* relation attachments: id -> [node_id, file_path]
  files,          \* the attachments directory: the relative paths that hold bytes
  byteStoreOk,    \* whether file operations in the attachments directory succeed
  clock,          \* the wall clock read by utcnow()
  nextNode,       \* node ids handed out so far + 1 (uuid4 is fresh)
  nextAtt,        \* attachment ids handed out so far + 1 (uuid4 is fresh)
  proc            \* per request slot: position, request, locals, response

vars == <<kinds, edges_kinds, nodes, edges, attachments, files, byteStoreOk,
          clock, nextNode, nextAtt, proc>>

store == <<kinds, edges_kinds, nodes, edges, attachments>>

NoReq == [op |-> "none"]
NoLoc == [none |-> TRUE]
NoRes == [status |-> 0, detail |-> "none", body |-> [none |-> TRUE]]
OkBody == [ok |-> TRUE]

Idle == [pc |-> "idle", req |-> NoReq, loc |-> NoLoc, res |-> NoRes]

Init ==
  /\ kinds = [k \in {} |-> SchemaObject]
  /\ edges_kinds = {}
  /\ nodes = [i \in {} |-> 0]
  /\ edges = {}
  /\ attachments = [i \in {} |-> 0]
  /\ files = {}
  /\ byteStoreOk = TRUE
  /\ clock = 0
  /\ nextNode = 1
  /\ nextAtt = 1
  /\ proc = [p \in Procs |-> Idle]

\* ---------------------------------------------------------------- helpers
Free(p) == proc[p].pc \in {"idle", "done"}

\* a request arrives: the slot holds it and the handler is at its first step
Begin(p, request, first) ==
  /\ Free(p)
  /\ proc' = [proc EXCEPT ![p] = [pc |-> first, req |-> request,
                                  loc |-> NoLoc, res |-> NoRes]]

Goto(p, next, locals) ==
  proc' = [proc EXCEPT ![p].pc = next, ![p].loc = locals]

\* the handler returns, or raises HTTPException(status_code, detail)
Respond(p, status_code, detail, body) ==
  proc' = [proc EXCEPT ![p].pc = "done", ![p].loc = NoLoc,
                       ![p].res = [status |-> status_code, detail |-> detail,
                                   body |-> body]]

\* an exception no handler catches: the transport answers 500
Raise(p, exception) == Respond(p, 500, exception, [none |-> TRUE])

At(p, op, pc) == proc[p].pc = pc /\ proc[p].req.op = op

Remove(f, key) == [x \in DOMAIN f \ {key} |-> f[x]]
Put(f, key, val) == [x \in DOMAIN f \cup {key} |-> IF x = key THEN val ELSE f[x]]

\* ---------------------------------------------------------- Kind Registry
NodeCountOfKind_Skipped(name) == 0

\* select count(*) from nodes where kind = name
NodeCountOfKind(name) ==
  Cardinality({i \in DOMAIN nodes : nodes[i].kind = name})

\* nodes.kind references kinds.name: a node row needs its kind row, and
\* ON DELETE RESTRICT keeps a kind row that a node row references
KindRowExists_Unchecked(name) == TRUE

KindRowExists(name) == name \in DOMAIN kinds

KindRowReferenced(name) == \E i \in DOMAIN nodes : nodes[i].kind = name

KindInsertRejected_Never(name) == FALSE

\* kinds.name is the primary key: the insert of a stored name raises
\* IntegrityError
KindInsertRejected(name) == name \in DOMAIN kinds

\* POST /kind
CreateKindBegin(p) ==
  /\ \E name \in KindNames, schema \in Schemas :
       Begin(p, [op |-> "create_kind", name |-> name, schema |-> schema],
             "ck_commit")
  /\ UNCHANGED <<store, files, byteStoreOk, clock, nextNode, nextAtt>>

CreateKindCommit(p) ==
  /\ At(p, "create_kind", "ck_commit")
  /\ LET r == proc[p].req IN
     IF KindInsertRejected(r.name)
     THEN /\ Respond(p, 409, "Kind already exists", [none |-> TRUE])
          /\ UNCHANGED kinds
     ELSE /\ kinds' = Put(kinds, r.name, r.schema)
          /\ Goto(p, "ck_refresh", NoLoc)
  /\ UNCHANGED <<edges_kinds, nodes, edges, attachments, files, byteStoreOk,
                 clock, nextNode, nextAtt>>

CreateKindRefresh(p) ==
  /\ At(p, "create_kind", "ck_refresh")
  /\ LET r == proc[p].req IN
     IF r.name \in DOMAIN kinds
     THEN Respond(p, 200, "ok", [name |-> r.name, schema |-> kinds[r.name]])
     ELSE Raise(p, "InvalidRequestError")
  /\ UNCHANGED <<store, files, byteStoreOk, clock, nextNode, nextAtt>>

create_kind(p) ==
  \/ CreateKindBegin(p)
  \/ CreateKindCommit(p)
  \/ CreateKindRefresh(p)

\* DELETE /kind/{name}
DeleteKindBegin(p) ==
  /\ \E name \in KindNames :
       Begin(p, [op |-> "delete_kind", name |-> name], "dk_get")
  /\ UNCHANGED <<store, files, byteStoreOk, clock, nextNode, nextAtt>>

DeleteKindGet(p) ==
  /\ At(p, "delete_kind", "dk_get")
  /\ IF proc[p].req.name \in DOMAIN kinds
     THEN Goto(p, "dk_count", NoLoc)
     ELSE Respond(p, 404, "Kind not found", [none |-> TRUE])
  /\ UNCHANGED <<store, files, byteStoreOk, clock, nextNode, nextAtt>>

DeleteKindCount(p) ==
  /\ At(p, "delete_kind", "dk_count")
  /\ IF NodeCountOfKind(proc[p].req.name) > 0
     THEN Respond(p, 400, "Cannot delete kind with existing nodes",
                  [none |-> TRUE])
     ELSE Goto(p, "dk_commit", NoLoc)
  /\ UNCHANGED <<store, files, byteStoreOk, clock, nextNode, nextAtt>>

EdgesKindsWithout_FromKindOnly(name) == {ek \in edges_kinds : ek[1] # name}

\* edges_kinds.from_kind and edges_kinds.to_kind reference kinds.name
\* ON DELETE CASCADE
EdgesKindsWithout(name) ==
  {ek \in edges_kinds : ek[1] # name /\ ek[2] # name}

\* db.delete(kind); db.commit(): nodes.kind is NOT NULL and references
\* kinds.name ON DELETE RESTRICT, so a referencing node makes the flush
\* raise IntegrityError, which delete_kind does not catch;
\* edges_kinds.from_kind / to_kind reference kinds.name ON DELETE CASCADE
DeleteKindCommit(p) ==
  /\ At(p, "delete_kind", "dk_commit")
  /\ LET name == proc[p].req.name IN
     IF KindRowReferenced(name)
     THEN /\ Raise(p, "IntegrityError")
          /\ UNCHANGED <<kinds, edges_kinds>>
     ELSE /\ kinds' = Remove(kinds, name)
          /\ edges_kinds' = EdgesKindsWithout(name)
          /\ Respond(p, 200, "ok", OkBody)
  /\ UNCHANGED <<nodes, edges, attachments, files, byteStoreOk, clock,
                 nextNode, nextAtt>>

delete_kind(p) ==
  \/ DeleteKindBegin(p)
  \/ DeleteKindGet(p)
  \/ DeleteKindCount(p)
  \/ DeleteKindCommit(p)

\* ----------------------------------------------------- Edge-Kind Registry
EdgeCountOfKind_RelationOnly(from_kind, to_kind, relation) ==
  Cardinality({e \in edges : e[3] = relation})

\* the join of delete_edges_kind: edges whose relation is `relation`, whose
\* source node has kind from_kind and whose target node has kind to_kind
EdgeCountOfKind(from_kind, to_kind, relation) ==
  Cardinality({e \in edges :
                 /\ e[3] = relation
                 /\ e[1] \in DOMAIN nodes /\ nodes[e[1]].kind = from_kind
                 /\ e[2] \in DOMAIN nodes /\ nodes[e[2]].kind = to_kind})

\* POST /edges-kind
CreateEdgesKindBegin(p) ==
  /\ \E fk \in KindNames, tk \in KindNames, rel \in Relations :
       Begin(p, [op |-> "create_edges_kind", from_kind |-> fk, to_kind |-> tk,
                 relation |-> rel], "cek_from")
  /\ UNCHANGED <<store, files, byteStoreOk, clock, nextNode, nextAtt>>

CreateEdgesKindFrom(p) ==
  /\ At(p, "create_edges_kind", "cek_from")
  /\ IF proc[p].req.from_kind \in DOMAIN kinds
     THEN Goto(p, "cek_to", NoLoc)
     ELSE Respond(p, 404, "Kind not found", [none |-> TRUE])
  /\ UNCHANGED <<store, files, byteStoreOk, clock, nextNode, nextAtt>>

CreateEdgesKindTo_Unchecked(p) ==
  /\ At(p, "create_edges_kind", "cek_to")
  /\ Goto(p, "cek_commit", NoLoc)
  /\ UNCHANGED <<store, files, byteStoreOk, clock, nextNode, nextAtt>>

\* the session's identity map answers the second lookup of the same name
CreateEdgesKindTo(p) ==
  /\ At(p, "create_edges_kind", "cek_to")
  /\ LET r == proc[p].req IN
     IF r.to_kind = r.from_kind \/ r.to_kind \in DOMAIN kinds
     THEN Goto(p, "cek_commit", NoLoc)
     ELSE Respond(p, 404, "Kind not found", [none |-> TRUE])
  /\ UNCHANGED <<store, files, byteStoreOk, clock, nextNode, nextAtt>>

\* the insert violates the primary key when the triple is stored and a
\* foreign key when one of the kinds is gone: both are IntegrityError
CreateEdgesKindCommit(p) ==
  /\ At(p, "create_edges_kind", "cek_commit")
  /\ LET r  == proc[p].req
         ek == <<r.from_kind, r.to_kind, r.relation>> IN
     IF \/ ek \in edges_kinds
        \/ r.from_kind \notin DOMAIN kinds
        \/ r.to_kind \notin DOMAIN kinds
     THEN /\ Respond(p, 409, "Edges kind already exists", [none |-> TRUE])
          /\ UNCHANGED edges_kinds
     ELSE /\ edges_kinds' = edges_kinds \cup {ek}
          /\ Goto(p, "cek_return", NoLoc)
  /\ UNCHANGED <<kinds, nodes, edges, attachments, files, byteStoreOk, clock,
                 nextNode, nextAtt>>

\* return ek: the commit expired the object, serializing it loads the row
CreateEdgesKindReturn(p) ==
  /\ At(p, "create_edges_kind", "cek_return")
  /\ LET r  == proc[p].req
         ek == <<r.from_kind, r.to_kind, r.relation>> IN
     IF ek \in edges_kinds
     THEN Respond(p, 200, "ok", [from_kind |-> r.from_kind,
                                 to_kind |-> r.to_kind,
                                 relation |-> r.relation])
     ELSE Raise(p, "ObjectDeletedError")
  /\ UNCHANGED <<store, files, byteStoreOk, clock, nextNode, nextAtt>>

create_edges_kind(p) ==
  \/ CreateEdgesKindBegin(p)
  \/ CreateEdgesKindFrom(p)
  \/ CreateEdgesKindTo(p)
  \/ CreateEdgesKindCommit(p)
  \/ CreateEdgesKindReturn(p)

\* DELETE /edges-kind/{from_kind}/{to_kind}/{relation}
DeleteEdgesKindBegin(p) ==
  /\ \E fk \in KindNames, tk \in KindNames, rel \in Relations :
       Begin(p, [op |-> "delete_edges_kind", from_kind |-> fk, to_kind |-> tk,
                 relation |-> rel], "dek_get")
  /\ UNCHANGED <<store, files, byteStoreOk, clock, nextNode, nextAtt>>

DeleteEdgesKindGet(p) ==
  /\ At(p, "delete_edges_kind", "dek_get")
  /\ LET r == proc[p].req IN
     IF <<r.from_kind, r.to_kind, r.relation>> \in edges_kinds
     THEN Goto(p, "dek_count", NoLoc)
     ELSE Respond(p, 404, "Edges kind not found", [none |-> TRUE])
  /\ UNCHANGED <<store, files, byteStoreOk, clock, nextNode, nextAtt>>

DeleteEdgesKindCount(p) ==
  /\ At(p, "delete_edges_kind", "dek_count")
  /\ LET r == proc[p].req IN
     IF EdgeCountOfKind(r.from_kind, r.to_kind, r.relation) > 0
     THEN Respond(p, 400, "Cannot delete edges kind used by existing edges",
                  [none |-> TRUE])
     ELSE Goto(p, "dek_commit", NoLoc)
  /\ UNCHANGED <<store, files, byteStoreOk, clock, nextNode, nextAtt>>

\* no relation references edges_kinds, so the delete meets no constraint
DeleteEdgesKindCommit(p) ==
  /\ At(p, "delete_edges_kind", "dek_commit")
  /\ LET r == proc[p].req IN
     edges_kinds' = edges_kinds \ {<<r.from_kind, r.to_kind, r.relation>>}
  /\ Respond(p, 200, "ok", OkBody)
  /\ UNCHANGED <<kinds, nodes, edges, attachments, files, byteStoreOk, clock,
                 nextNode, nextAtt>>

delete_edges_kind(p) ==
  \/ DeleteEdgesKindBegin(p)
  \/ DeleteEdgesKindGet(p)
  \/ DeleteEdgesKindCount(p)
  \/ DeleteEdgesKindCommit(p)

\* ------------------------------------------------------------- Node Store
\* requests in flight that will still take a fresh node id at their commit
Creating(op) == Cardinality({q \in Procs : ~Free(q) /\ proc[q].req.op = op})

\* utcnow(): the clock never runs backwards and may have advanced since the
\* last reading
Ticks(c) == {c} \cup (IF c < MaxClock THEN {c + 1} ELSE {})

NodeOut(id) ==
  [id |-> id, kind |-> nodes[id].kind,
   payload |-> FromJsonb(nodes[id].payload),
   created_at |-> nodes[id].created_at, updated_at |-> nodes[id].updated_at]

\* POST /node
CreateNodeBegin(p) ==
  /\ nextNode + Creating("create_node") <= MaxNodes
  /\ \E kind \in KindNames, payload \in Payloads :
       Begin(p, [op |-> "create_node", kind |-> kind, payload |-> payload],
             "cn_get")
  /\ UNCHANGED <<store, files, byteStoreOk, clock, nextNode, nextAtt>>

CreateNodeGet_KindUnchecked(p) ==
  /\ At(p, "create_node", "cn_get")
  /\ Goto(p, "cn_commit", NoLoc)
  /\ UNCHANGED <<store, files, byteStoreOk, clock, nextNode, nextAtt>>

CreateNodeGet(p) ==
  /\ At(p, "create_node", "cn_get")
  /\ LET r == proc[p].req IN
     IF r.kind \notin DOMAIN kinds
     THEN Respond(p, 400, "Unknown kind", [none |-> TRUE])
     ELSE LET errors == _validate_payload(kinds[r.kind], r.payload) IN
          IF errors # <<>>
          THEN Respond(p, 400, "Payload does not match schema",
                       [errors |-> errors])
          ELSE Goto(p, "cn_commit", NoLoc)
  /\ UNCHANGED <<store, files, byteStoreOk, clock, nextNode, nextAtt>>

\* the insert takes id, created_at and updated_at from the column defaults
\* uuid4, utcnow and utcnow, each called on its own; nodes.kind references
\* kinds.name, and create_node does not catch the IntegrityError
CreateNodeCommit(p) ==
  /\ At(p, "create_node", "cn_commit")
  /\ LET r == proc[p].req IN
     IF ~KindRowExists(r.kind)
     THEN /\ Raise(p, "IntegrityError")
          /\ UNCHANGED <<nodes, clock, nextNode>>
     ELSE \E created \in Ticks(clock) : \E updated \in Ticks(created) :
            /\ nodes' = Put(nodes, nextNode,
                            [kind |-> r.kind, payload |-> Jsonb(r.payload),
                             created_at |-> created, updated_at |-> updated])
            /\ clock' = updated
            /\ nextNode' = nextNode + 1
            /\ Goto(p, "cn_refresh", [id |-> nextNode])
  /\ UNCHANGED <<kinds, edges_kinds, edges, attachments, files, byteStoreOk,
                 nextAtt>>

CreateNodeRefresh(p) ==
  /\ At(p, "create_node", "cn_refresh")
  /\ LET id == proc[p].loc.id IN
     IF id \in DOMAIN nodes
     THEN Respond(p, 200, "ok", NodeOut(id))
     ELSE Raise(p, "InvalidRequestError")
  /\ UNCHANGED <<store, files, byteStoreOk, clock, nextNode, nextAtt>>

create_node(p) ==
  \/ CreateNodeBegin(p)
  \/ CreateNodeGet(p)
  \/ CreateNodeCommit(p)
  \/ CreateNodeRefresh(p)

\* GET /node/{id}
GetNodeResponse(id) ==
  IF id \in DOMAIN nodes
  THEN [status |-> 200, detail |-> "ok", body |-> NodeOut(id)]
  ELSE [status |-> 404, detail |-> "Node not found", body |-> [none |-> TRUE]]

get_node(p) ==
  /\ Free(p)
  /\ \E id \in NodeIds :
       proc' = [proc EXCEPT ![p] =
                  [pc |-> "done", req |-> [op |-> "get_node", id |-> id],
                   loc |-> NoLoc, res |-> GetNodeResponse(id)]]
  /\ UNCHANGED <<store, files, byteStoreOk, clock, nextNode, nextAtt>>

\* PUT /node/{id}
UpdateNodeBegin(p) ==
  /\ \E id \in NodeIds, payload \in Payloads :
       Begin(p, [op |-> "update_node", id |-> id, payload |-> payload],
             "un_node")
  /\ UNCHANGED <<store, files, byteStoreOk, clock, nextNode, nextAtt>>

UpdateNodeGetNode(p) ==
  /\ At(p, "update_node", "un_node")
  /\ LET id == proc[p].req.id IN
     IF id \in DOMAIN nodes
     THEN Goto(p, "un_kind", [kind |-> nodes[id].kind,
                              payload |-> FromJsonb(nodes[id].payload)])
     ELSE Respond(p, 404, "Node not found", [none |-> TRUE])
  /\ UNCHANGED <<store, files, byteStoreOk, clock, nextNode, nextAtt>>

UpdateNodeGetKind(p) ==
  /\ At(p, "update_node", "un_kind")
  /\ LET r == proc[p].req
         l == proc[p].loc IN
     IF l.kind \notin DOMAIN kinds
     THEN Respond(p, 404, "Kind not found", [none |-> TRUE])
     ELSE LET errors == _validate_payload(kinds[l.kind], r.payload) IN
          IF errors # <<>>
          THEN Respond(p, 400, "Payload does not match schema",
                       [errors |-> errors])
          ELSE Goto(p, "un_commit", l)
  /\ UNCHANGED <<store, files, byteStoreOk, clock, nextNode, nextAtt>>

UpdatedRow_Recreated(row, payload) ==
  [kind |-> row.kind, payload |-> Jsonb(payload),
   created_at |-> row.updated_at + 1, updated_at |-> row.updated_at]

\* the row written by update_node: node.payload = body.payload is the only
\* assignment, and no column of nodes has an onupdate default
UpdatedRow(row, payload) == [row EXCEPT !.payload = Jsonb(payload)]

\* the unit of work emits UPDATE nodes SET payload only when the assigned
\* value differs from the loaded one; an UPDATE that matches no row raises
\* StaleDataError
UpdateNodeCommit(p) ==
  /\ At(p, "update_node", "un_commit")
  /\ LET r == proc[p].req
         l == proc[p].loc IN
     IF r.payload = l.payload
     THEN /\ Goto(p, "un_refresh", NoLoc)
          /\ UNCHANGED nodes
     ELSE IF r.id \notin DOMAIN nodes
     THEN /\ Raise(p, "StaleDataError")
          /\ UNCHANGED nodes
     ELSE /\ nodes' = [nodes EXCEPT ![r.id] = UpdatedRow(@, r.payload)]
          /\ Goto(p, "un_refresh", NoLoc)
  /\ UNCHANGED <<kinds, edges_kinds, edges, attachments, files, byteStoreOk,
                 clock, nextNode, nextAtt>>

UpdateNodeRefresh(p) ==
  /\ At(p, "update_node", "un_refresh")
  /\ LET id == proc[p].req.id IN
     IF id \in DOMAIN nodes
     THEN Respond(p, 200, "ok", NodeOut(id))
     ELSE Raise(p, "InvalidRequestError")
  /\ UNCHANGED <<store, files, byteStoreOk, clock, nextNode, nextAtt>>

update_node(p) ==
  \/ UpdateNodeBegin(p)
  \/ UpdateNodeGetNode(p)
  \/ UpdateNodeGetKind(p)
  \/ UpdateNodeCommit(p)
  \/ UpdateNodeRefresh(p)

\* DELETE /node/{id}
DeleteNodeBegin(p) ==
  /\ \E id \in NodeIds :
       Begin(p, [op |-> "delete_node", id |-> id], "dn_get")
  /\ UNCHANGED <<store, files, byteStoreOk, clock, nextNode, nextAtt>>

DeleteNodeGet(p) ==
  /\ At(p, "delete_node", "dn_get")
  /\ IF proc[p].req.id \in DOMAIN nodes
     THEN Goto(p, "dn_files", NoLoc)
     ELSE Respond(p, 404, "Node not found", [none |-> TRUE])
  /\ UNCHANGED <<store, files, byteStoreOk, clock, nextNode, nextAtt>>

\* select * from attachments where node_id = id
AttachmentsOf(id) == {a \in DOMAIN attachments : attachments[a].node_id = id}

\* _delete_file_quietly on each path: unlink(missing_ok=True), and an
\* exception of the byte store is swallowed, leaving the bytes in place
Unlinked(paths) == IF byteStoreOk THEN files \ paths ELSE files

DeleteNodeFiles(p) ==
  /\ At(p, "delete_node", "dn_files")
  /\ files' = Unlinked({attachments[a].file_path :
                          a \in AttachmentsOf(proc[p].req.id)})
  /\ Goto(p, "dn_commit", NoLoc)
  /\ UNCHANGED <<store, byteStoreOk, clock, nextNode, nextAtt>>

EdgesWithout_OutgoingOnly(id) == {e \in edges : e[1] # id}

\* edges.from_id, edges.to_id and attachments.node_id reference nodes.id
\* ON DELETE CASCADE (the relationships are passive_deletes)
EdgesWithout(id) == {e \in edges : e[1] # id /\ e[2] # id}

AttachmentsWithout_Kept(id) == attachments

AttachmentsWithout(id) ==
  [a \in DOMAIN attachments \ AttachmentsOf(id) |-> attachments[a]]

DeleteNodeCommit(p) ==
  /\ At(p, "delete_node", "dn_commit")
  /\ LET id == proc[p].req.id IN
       /\ nodes' = Remove(nodes, id)
       /\ edges' = EdgesWithout(id)
       /\ attachments' = AttachmentsWithout(id)
  /\ Respond(p, 200, "ok", OkBody)
  /\ UNCHANGED <<kinds, edges_kinds, files, byteStoreOk, clock, nextNode,
                 nextAtt>>

delete_node(p) ==
  \/ DeleteNodeBegin(p)
  \/ DeleteNodeGet(p)
  \/ DeleteNodeFiles(p)
  \/ DeleteNodeCommit(p)

\* ------------------------------------------------------- Search Compiler
\* POST /nodes/search
\* key.split(".")
RECURSIVE Split(_)
Split(key) ==
  IF \E i \in DOMAIN key : key[i] = "."
  THEN LET i == CHOOSE j \in DOMAIN key :
                  key[j] = "." /\ \A k \in 1..(j - 1) : key[k] # "."
       IN  <<SubSeq(key, 1, i - 1)>> \o Split(SubSeq(key, i + 1, Len(key)))
  ELSE <<key>>

\* the pairs of a JSONB object, ordered by key length and then by key
JsonbPairs(pairs) ==
  LET keys == SelectSeq(JsonbKeyOrder,
                        LAMBDA k : \E i \in DOMAIN pairs : pairs[i][1] = k)
  IN  [i \in DOMAIN keys |->
         pairs[CHOOSE j \in DOMAIN pairs :
                 pairs[j][1] = keys[i]
                   /\ \A l \in DOMAIN pairs : pairs[l][1] = keys[i] => l <= j]]

RECURSIVE Numeral(_)
Numeral(n) ==
  IF n < 10 THEN <<Digits[n + 1]>>
  ELSE Numeral(n \div 10) \o <<Digits[(n % 10) + 1]>>

DoubleQuoted(chars) == <<"\"">> \o chars \o <<"\"">>

RECURSIVE Joined(_)
Joined(texts) ==
  IF texts = <<>> THEN <<>>
  ELSE IF Len(texts) = 1 THEN texts[1]
  ELSE texts[1] \o <<",", " ">> \o Joined(Tail(texts))

\* the text PostgreSQL prints for a jsonb value
RECURSIVE JsonbOut_ItemsReversed(_)
JsonbOut_ItemsReversed(v) ==
  IF v.t = "string" THEN DoubleQuoted(v.s)
  ELSE IF v.t = "boolean"
  THEN (IF v.b THEN <<"t", "r", "u", "e">> ELSE <<"f", "a", "l", "s", "e">>)
  ELSE IF v.t = "number" THEN Numeral(v.n)
  ELSE IF v.t = "null" THEN <<"n", "u", "l", "l">>
  ELSE IF v.t = "array"
  THEN <<"[">>
       \o Joined([i \in DOMAIN v.a |->
                    JsonbOut_ItemsReversed(v.a[Len(v.a) + 1 - i])])
       \o <<"]">>
  ELSE <<"{">>
       \o Joined([i \in DOMAIN v.o |->
                    DoubleQuoted(KeyChars[v.o[i][1]]) \o <<":", " ">>
                    \o JsonbOut_ItemsReversed(v.o[i][2])])
       \o <<"}">>

RECURSIVE JsonbOut(_)
JsonbOut(v) ==
  IF v.t = "string" THEN DoubleQuoted(v.s)
  ELSE IF v.t = "boolean"
  THEN (IF v.b THEN <<"t", "r", "u", "e">> ELSE <<"f", "a", "l", "s", "e">>)
  ELSE IF v.t = "number" THEN Numeral(v.n)
  ELSE IF v.t = "null" THEN <<"n", "u", "l", "l">>
  ELSE IF v.t = "array"
  THEN <<"[">> \o Joined([i \in DOMAIN v.a |-> JsonbOut(v.a[i])]) \o <<"]">>
  ELSE LET ps == JsonbPairs(v.o)
       IN  <<"{">>
           \o Joined([i \in DOMAIN ps |->
                        DoubleQuoted(KeyChars[ps[i][1]]) \o <<":", " ">>
                        \o JsonbOut(ps[i][2])])
           \o <<"}">>

\* json.dumps(val): the dict's pairs in insertion order
RECURSIVE JsonDumps(_)
JsonDumps(v) ==
  IF v.t = "string" THEN DoubleQuoted(v.s)
  ELSE IF v.t = "boolean"
  THEN (IF v.b THEN <<"t", "r", "u", "e">> ELSE <<"f", "a", "l", "s", "e">>)
  ELSE IF v.t = "number" THEN Numeral(v.n)
  ELSE IF v.t = "null" THEN <<"n", "u", "l", "l">>
  ELSE IF v.t = "array"
  THEN <<"[">> \o Joined([i \in DOMAIN v.a |-> JsonDumps(v.a[i])]) \o <<"]">>
  ELSE <<"{">>
       \o Joined([i \in DOMAIN v.o |->
                    DoubleQuoted(KeyChars[v.o[i][1]]) \o <<":", " ">>
                    \o JsonDumps(v.o[i][2])])
       \o <<"}">>

\* the value a path leads to: each element is a key of the object reached
\* so far (or an index of an array, which no key of these payloads is)
Absent == [found |-> FALSE, v |-> Null]

RECURSIVE ExtractPath(_, _)
ExtractPath(v, path) ==
  IF path = <<>> THEN [found |-> TRUE, v |-> v]
  ELSE IF v.t # "object" THEN Absent
  ELSE IF \E i \in DOMAIN v.o : KeyChars[v.o[i][1]] = Head(path)
  THEN ExtractPath(v.o[CHOOSE i \in DOMAIN v.o :
                         KeyChars[v.o[i][1]] = Head(path)][2],
                   Tail(path))
  ELSE Absent

SqlNull == [null |-> TRUE, text |-> <<>>]

jsonb_extract_path_text_NullAsText(payload, path) ==
  LET x == ExtractPath(Obj(payload), path)
  IN  IF ~x.found THEN SqlNull
      ELSE IF x.v.t = "string" THEN [null |-> FALSE, text |-> x.v.s]
      ELSE [null |-> FALSE, text |-> JsonbOut(x.v)]

\* jsonb_extract_path_text(nodes.payload, *path): NULL when the path leads
\* nowhere or to a JSON null, the characters of a string, and the printed
\* jsonb of any other value
jsonb_extract_path_text(payload, path) ==
  LET x == ExtractPath(Obj(payload), path)
  IN  IF ~x.found \/ x.v.t = "null" THEN SqlNull
      ELSE IF x.v.t = "string" THEN [null |-> FALSE, text |-> x.v.s]
      ELSE [null |-> FALSE, text |-> JsonbOut(x.v)]

Uppers ==
  <<"A", "B", "C", "D", "E", "F", "G", "H", "I", "J", "K", "L", "M", "N",
    "O", "P", "Q", "R", "S", "T", "U", "V", "W", "X", "Y", "Z">>
Lowers ==
  <<"a", "b", "c", "d", "e", "f", "g", "h", "i", "j", "k", "l", "m", "n",
    "o", "p", "q", "r", "s", "t", "u", "v", "w", "x", "y", "z">>

Lower(c) ==
  IF \E i \in DOMAIN Uppers : Uppers[i] = c
  THEN Lowers[CHOOSE i \in DOMAIN Uppers : Uppers[i] = c]
  ELSE c

LowerAll(text) == [i \in DOMAIN text |-> Lower(text[i])]

\* text LIKE pattern: % stands for any characters, _ for any one character
\* (patterns here hold no backslash, the escape character)
RECURSIVE Like(_, _)
Like(text, pattern) ==
  IF pattern = <<>> THEN text = <<>>
  ELSE IF Head(pattern) = "%"
  THEN Like(text, Tail(pattern))
         \/ (text # <<>> /\ Like(Tail(text), pattern))
  ELSE IF Head(pattern) = "_"
  THEN text # <<>> /\ Like(Tail(text), Tail(pattern))
  ELSE /\ text # <<>>
       /\ Head(text) = Head(pattern)
       /\ Like(Tail(text), Tail(pattern))

ILike_CaseSensitive(text, pattern) == Like(text, pattern)

\* text ILIKE pattern
ILike(text, pattern) == Like(LowerAll(text), LowerAll(pattern))

\* val.replace("*", "%")
Replaced(val) == [i \in DOMAIN val |-> IF val[i] = "*" THEN "%" ELSE val[i]]

RECURSIVE Trimmed(_)
Trimmed(text) ==
  IF text # <<>> /\ Head(text) = " " THEN Trimmed(Tail(text))
  ELSE IF text # <<>> /\ text[Len(text)] = " "
  THEN Trimmed(SubSeq(text, 1, Len(text) - 1))
  ELSE text

IsPrefixOf(a, b) == Len(a) <= Len(b) /\ SubSeq(b, 1, Len(a)) = a

\* CAST(text AS BOOLEAN): PostgreSQL reads the prefixes of true, false, yes
\* and no, on, of / off, 1 and 0, in any case, and fails on any other text
BoolIn(text) ==
  LET s == LowerAll(Trimmed(text))
  IN  IF s = <<>> THEN "e"
      ELSE IF \/ IsPrefixOf(s, <<"t", "r", "u", "e">>)
              \/ IsPrefixOf(s, <<"y", "e", "s">>)
              \/ s = <<"o", "n">>
              \/ s = <<"1">>
      THEN "t"
      ELSE IF \/ IsPrefixOf(s, <<"f", "a", "l", "s", "e">>)
              \/ IsPrefixOf(s, <<"n", "o">>)
              \/ (Len(s) >= 2 /\ IsPrefixOf(s, <<"o", "f", "f">>))
              \/ s = <<"0">>
      THEN "f"
      ELSE "e"

IsDigit(c) == \E i \in DOMAIN Digits : Digits[i] = c

\* CAST(text AS NUMERIC) of the texts of these payloads, which hold no sign,
\* point or exponent: a run of digits is read as its number and any other
\* text fails
IsNumeric(text) ==
  LET s == Trimmed(text) IN s # <<>> /\ \A i \in DOMAIN s : IsDigit(s[i])

RECURSIVE DigitsValue(_)
DigitsValue(s) ==
  IF s = <<>> THEN 0
  ELSE 10 * DigitsValue(SubSeq(s, 1, Len(s) - 1))
       + (CHOOSE i \in DOMAIN Digits : Digits[i] = s[Len(s)]) - 1

NumericIn(text) == DigitsValue(Trimmed(text))

\* the truth value of a comparison: "t", "f", "n" (NULL), or "e" when
\* PostgreSQL raises an error evaluating it
Truth(b) == IF b THEN "t" ELSE "f"

ClauseValue_NullMatches(key, val, payload) ==
  LET x == jsonb_extract_path_text(payload, Split(key))
  IN  IF x.null THEN "t"
      ELSE IF val.t = "string"
      THEN (IF \E i \in DOMAIN val.s : val.s[i] = "*"
            THEN Truth(ILike(x.text, Replaced(val.s)))
            ELSE Truth(x.text = val.s))
      ELSE IF val.t = "boolean"
      THEN (IF BoolIn(x.text) = "e" THEN "e"
            ELSE Truth((BoolIn(x.text) = "t") = val.b))
      ELSE IF val.t = "number"
      THEN (IF IsNumeric(x.text) THEN Truth(NumericIn(x.text) = val.n)
            ELSE "e")
      ELSE IF val.t = "null" THEN "f"
      ELSE Truth(x.text = JsonDumps(val))

\* the clause compiled for one item of body.query, evaluated on a payload
ClauseValue(key, val, payload) ==
  LET x == jsonb_extract_path_text(payload, Split(key))
  IN  IF val.t = "string"
      THEN (IF x.null THEN "n"
            ELSE IF \E i \in DOMAIN val.s : val.s[i] = "*"
            THEN Truth(ILike(x.text, Replaced(val.s)))
            ELSE Truth(x.text = val.s))
      ELSE IF val.t = "boolean"
      THEN (IF x.null THEN "n"
            ELSE IF BoolIn(x.text) = "e" THEN "e"
            ELSE Truth((BoolIn(x.text) = "t") = val.b))
      ELSE IF val.t = "number"
      THEN (IF x.null THEN "n"
            ELSE IF IsNumeric(x.text) THEN Truth(NumericIn(x.text) = val.n)
            ELSE "e")
      ELSE IF val.t = "null" THEN Truth(x.null)
      ELSE (IF x.null THEN "n" ELSE Truth(x.text = JsonDumps(val)))

\* the values of the clauses on the row of node id: Node.kind.in_(kinds)
\* when body.kinds is a non-empty list, and one clause per query item
RowValues(body, id) ==
  (IF body.kinds.some /\ body.kinds.names # {}
   THEN {Truth(nodes[id].kind \in body.kinds.names)}
   ELSE {})
  \cup
  {ClauseValue(body.query[i][1], body.query[i][2], nodes[id].payload) :
     i \in DOMAIN body.query}

Matches_AnyClause(body, id) ==
  RowValues(body, id) = {} \/ "t" \in RowValues(body, id)

\* where and_(*clauses)
Matches(body, id) == RowValues(body, id) \subseteq {"t"}

\* a row on which a cast fails: PostgreSQL promises no order for the
\* conjuncts, so the failing one is skipped or not when another conjunct is
\* false or NULL, and is evaluated for sure when all the others are true
MayFail(body, id)  == "e" \in RowValues(body, id)
MustFail(body, id) ==
  "e" \in RowValues(body, id) /\ RowValues(body, id) \subseteq {"t", "e"}

NoLimit  == [some |-> FALSE, n |-> 0]
Limit(n) == [some |-> TRUE, n |-> n]

NoKinds      == [some |-> FALSE, names |-> {}]
KindsOf(set) == [some |-> TRUE, names |-> set]

SearchOutcomes_LimitIgnored(body) ==
  {[status |-> 200, detail |-> "ok",
    body |-> [nodes |-> {NodeOut(id) :
                           id \in {i \in DOMAIN nodes : Matches(body, i)}}]]}

\* the answers of the select: without ORDER BY a limit keeps any rows of
\* the result and stops the scan once it has them (LIMIT 0 reads no row),
\* so a row with a failing cast fails the statement or is never read
SearchOutcomes(body) ==
  LET hits  == {id \in DOMAIN nodes : Matches(body, id)}
      count == IF body.limit.some /\ body.limit.n < Cardinality(hits)
               THEN body.limit.n ELSE Cardinality(hits)
      early == body.limit.some /\ body.limit.n <= Cardinality(hits)
      none  == body.limit.some /\ body.limit.n = 0
  IN  {[status |-> 200, detail |-> "ok",
        body |-> [nodes |-> {NodeOut(id) : id \in page}]] :
         page \in {s \in SUBSET hits :
                     /\ Cardinality(s) = count
                     /\ early \/ \A id \in DOMAIN nodes : ~MustFail(body, id)}}
      \cup
      {[status |-> 500, detail |-> "DataError", body |-> [none |-> TRUE]] :
         id \in {i \in DOMAIN nodes : MayFail(body, i) /\ ~none}}

\* the requests a client sends (SearchDatamodel): the paths name, is_active,
\* profile.bio and profile, with a target of every type
BioPath == KeyChars.profile \o <<".">> \o KeyChars.bio

SearchKeys == {KeyChars.name, KeyChars.is_active, BioPath, KeyChars.profile}

BioAda == Obj(<<<<"bio", Str(Ada)>>>>)

ZeroOne == Arr(<<Num(0), Num(1)>>)

SearchTargets ==
  {Str(Ada), Str(<<"*", "d", "A", "*">>), Bool(TRUE), Bool(FALSE), Num(1),
   Null, Arr(<<Num(1)>>), BioAda, ZeroOne, Str(<<"a", "_", "c", "*">>)}

SearchQueries ==
  {<<>>}
  \cup {<<<<key, val>>>> : key \in SearchKeys, val \in SearchTargets}
  \cup {<<<<KeyChars.name, Str(<<"*", "d", "A", "*">>)>>,
          <<KeyChars.is_active, Bool(TRUE)>>>>,
        <<<<KeyChars.is_active, Bool(TRUE)>>, <<KeyChars.name, Null>>>>,
        <<<<KeyChars.name, Str(Ada)>>, <<KeyChars.is_active, Num(1)>>>>}

SearchKinds ==
  {NoKinds, KindsOf({}), KindsOf({"a"}), KindsOf({"b"}), KindsOf({"a", "b"})}

SearchLimits == {NoLimit, Limit(0), Limit(1), Limit(2)}

SearchBodies ==
  [kinds : SearchKinds, query : SearchQueries, limit : SearchLimits]

\* the handler is one select
search_nodes(p) ==
  /\ Free(p)
  /\ \E body \in SearchBodies :
       \E res \in SearchOutcomes(body) :
         proc' = [proc EXCEPT ![p] =
                    [pc |-> "done",
                     req |-> [op |-> "search_nodes", kinds |-> body.kinds,
                              query |-> body.query, limit |-> body.limit],
                     loc |-> NoLoc, res |-> res]]
  /\ UNCHANGED <<store, files, byteStoreOk, clock, nextNode, nextAtt>>

\* ------------------------------------------------------------- Edge Store
\* POST /edge
CreateEdgeBegin(p) ==
  /\ \E from_id \in NodeIds, to_id \in NodeIds, rel \in Relations :
       Begin(p, [op |-> "create_edge", from_id |-> from_id, to_id |-> to_id,
                 relation |-> rel], "ce_from")
  /\ UNCHANGED <<store, files, byteStoreOk, clock, nextNode, nextAtt>>

CreateEdgeFrom(p) ==
  /\ At(p, "create_edge", "ce_from")
  /\ LET id == proc[p].req.from_id IN
     IF id \in DOMAIN nodes
     THEN Goto(p, "ce_to", [from_kind |-> nodes[id].kind])
     ELSE Respond(p, 400, "from_id node not found", [none |-> TRUE])
  /\ UNCHANGED <<store, files, byteStoreOk, clock, nextNode, nextAtt>>

CreateEdgeTo_NotFound(p) ==
  /\ At(p, "create_edge", "ce_to")
  /\ LET r == proc[p].req
         l == proc[p].loc IN
     IF r.to_id \in DOMAIN nodes
     THEN Goto(p, "ce_allowed", [from_kind |-> l.from_kind,
                                 to_kind |-> nodes[r.to_id].kind])
     ELSE Respond(p, 404, "Node not found", [none |-> TRUE])
  /\ UNCHANGED <<store, files, byteStoreOk, clock, nextNode, nextAtt>>

\* for a self-loop the identity map returns the node loaded as from_node
CreateEdgeTo(p) ==
  /\ At(p, "create_edge", "ce_to")
  /\ LET r == proc[p].req
         l == proc[p].loc IN
     IF r.to_id = r.from_id
     THEN Goto(p, "ce_allowed", [from_kind |-> l.from_kind,
                                 to_kind |-> l.from_kind])
     ELSE IF r.to_id \in DOMAIN nodes
     THEN Goto(p, "ce_allowed", [from_kind |-> l.from_kind,
                                 to_kind |-> nodes[r.to_id].kind])
     ELSE Respond(p, 400, "to_id node not found", [none |-> TRUE])
  /\ UNCHANGED <<store, files, byteStoreOk, clock, nextNode, nextAtt>>

Allowed_Swapped(from_kind, to_kind, relation) ==
  <<to_kind, from_kind, relation>> \in edges_kinds

\* db.get(EdgesKind, (from_node.kind, to_node.kind, relation))
Allowed(from_kind, to_kind, relation) ==
  <<from_kind, to_kind, relation>> \in edges_kinds

CreateEdgeAllowed(p) ==
  /\ At(p, "create_edge", "ce_allowed")
  /\ LET r == proc[p].req
         l == proc[p].loc IN
     IF Allowed(l.from_kind, l.to_kind, r.relation)
     THEN Goto(p, "ce_commit", NoLoc)
     ELSE Respond(p, 400, "Edge relationship not allowed by edges-kinds",
                  [none |-> TRUE])
  /\ UNCHANGED <<store, files, byteStoreOk, clock, nextNode, nextAtt>>

EdgeInsertRejected_ForeignKeysOnly(from_id, to_id, relation) ==
  \/ from_id \notin DOMAIN nodes
  \/ to_id \notin DOMAIN nodes

\* the insert violates the primary key when the triple is stored and a
\* foreign key when an endpoint node is gone: both are IntegrityError
EdgeInsertRejected(from_id, to_id, relation) ==
  \/ <<from_id, to_id, relation>> \in edges
  \/ from_id \notin DOMAIN nodes
  \/ to_id \notin DOMAIN nodes

CreateEdgeCommit(p) ==
  /\ At(p, "create_edge", "ce_commit")
  /\ LET r == proc[p].req IN
     IF EdgeInsertRejected(r.from_id, r.to_id, r.relation)
     THEN /\ Respond(p, 409, "Edge already exists", [none |-> TRUE])
          /\ UNCHANGED edges
     ELSE /\ edges' = edges \cup {<<r.from_id, r.to_id, r.relation>>}
          /\ Goto(p, "ce_refresh", NoLoc)
  /\ UNCHANGED <<kinds, edges_kinds, nodes, attachments, files, byteStoreOk,
                 clock, nextNode, nextAtt>>

CreateEdgeRefresh(p) ==
  /\ At(p, "create_edge", "ce_refresh")
  /\ LET r == proc[p].req IN
     IF <<r.from_id, r.to_id, r.relation>> \in edges
     THEN Respond(p, 200, "ok", [from_id |-> r.from_id, to_id |-> r.to_id,
                                 relation |-> r.relation])
     ELSE Raise(p, "InvalidRequestError")
  /\ UNCHANGED <<store, files, byteStoreOk, clock, nextNode, nextAtt>>

create_edge(p) ==
  \/ CreateEdgeBegin(p)
  \/ CreateEdgeFrom(p)
  \/ CreateEdgeTo(p)
  \/ CreateEdgeAllowed(p)
  \/ CreateEdgeCommit(p)
  \/ CreateEdgeRefresh(p)

\* DELETE /edge/{from_id}/{to_id}/{relation}
DeleteEdgeBegin(p) ==
  /\ \E from_id \in NodeIds, to_id \in NodeIds, rel \in Relations :
       Begin(p, [op |-> "delete_edge", from_id |-> from_id, to_id |-> to_id,
                 relation |-> rel], "de_get")
  /\ UNCHANGED <<store, files, byteStoreOk, clock, nextNode, nextAtt>>

DeleteEdgeGet(p) ==
  /\ At(p, "delete_edge", "de_get")
  /\ LET r == proc[p].req IN
     IF <<r.from_id, r.to_id, r.relation>> \in edges
     THEN Goto(p, "de_commit", NoLoc)
     ELSE Respond(p, 404, "Edge not found", [none |-> TRUE])
  /\ UNCHANGED <<store, files, byteStoreOk, clock, nextNode, nextAtt>>

DeleteEdgeCommit(p) ==
  /\ At(p, "delete_edge", "de_commit")
  /\ LET r == proc[p].req IN
     edges' = edges \ {<<r.from_id, r.to_id, r.relation>>}
  /\ Respond(p, 200, "ok", OkBody)
  /\ UNCHANGED <<kinds, edges_kinds, nodes, attachments, files, byteStoreOk,
                 clock, nextNode, nextAtt>>

delete_edge(p) ==
  \/ DeleteEdgeBegin(p)
  \/ DeleteEdgeGet(p)
  \/ DeleteEdgeCommit(p)

\* select * from edges where from_id = node_id
EdgesFrom(node_id) == {e \in edges : e[1] = node_id}

EdgesInto_FromId(node_id) == {e \in edges : e[1] = node_id}

\* select * from edges where to_id = node_id
EdgesInto(node_id) == {e \in edges : e[2] = node_id}

\* select * from edges where from_id = from_id and to_id = to_id
EdgesBetween(from_id, to_id) ==
  {e \in edges : e[1] = from_id /\ e[2] = to_id}

\* GET /outgoing-edges/{node_id}
OutgoingEdgesBegin(p) ==
  /\ \E node_id \in NodeIds :
       Begin(p, [op |-> "outgoing_edges", node_id |-> node_id], "oe_node")
  /\ UNCHANGED <<store, files, byteStoreOk, clock, nextNode, nextAtt>>

OutgoingEdgesNode(p) ==
  /\ At(p, "outgoing_edges", "oe_node")
  /\ IF proc[p].req.node_id \in DOMAIN nodes
     THEN Goto(p, "oe_select", NoLoc)
     ELSE Respond(p, 404, "Node not found", [none |-> TRUE])
  /\ UNCHANGED <<store, files, byteStoreOk, clock, nextNode, nextAtt>>

OutgoingEdgesSelect(p) ==
  /\ At(p, "outgoing_edges", "oe_select")
  /\ Respond(p, 200, "ok", [edges |-> EdgesFrom(proc[p].req.node_id)])
  /\ UNCHANGED <<store, files, byteStoreOk, clock, nextNode, nextAtt>>

outgoing_edges(p) ==
  \/ OutgoingEdgesBegin(p)
  \/ OutgoingEdgesNode(p)
  \/ OutgoingEdgesSelect(p)

\* GET /incoming-edges/{node_id}
IncomingEdgesBegin(p) ==
  /\ \E node_id \in NodeIds :
       Begin(p, [op |-> "incoming_edges", node_id |-> node_id], "ie_node")
  /\ UNCHANGED <<store, files, byteStoreOk, clock, nextNode, nextAtt>>

IncomingEdgesNode(p) ==
  /\ At(p, "incoming_edges", "ie_node")
  /\ IF proc[p].req.node_id \in DOMAIN nodes
     THEN Goto(p, "ie_select", NoLoc)
     ELSE Respond(p, 404, "Node not found", [none |-> TRUE])
  /\ UNCHANGED <<store, files, byteStoreOk, clock, nextNode, nextAtt>>

IncomingEdgesSelect(p) ==
  /\ At(p, "incoming_edges", "ie_select")
  /\ Respond(p, 200, "ok", [edges |-> EdgesInto(proc[p].req.node_id)])
  /\ UNCHANGED <<store, files, byteStoreOk, clock, nextNode, nextAtt>>

incoming_edges(p) ==
  \/ IncomingEdgesBegin(p)
  \/ IncomingEdgesNode(p)
  \/ IncomingEdgesSelect(p)

\* GET /edges/{from_id}/{to_id}: one select, no lookup of the nodes
edges_between(p) ==
  /\ Free(p)
  /\ \E from_id \in NodeIds, to_id \in NodeIds :
       proc' = [proc EXCEPT ![p] =
                  [pc |-> "done",
                   req |-> [op |-> "edges_between", from_id |-> from_id,
                            to_id |-> to_id],
                   loc |-> NoLoc,
                   res |-> [status |-> 200, detail |-> "ok",
                            body |-> [edges |->
                                        EdgesBetween(from_id, to_id)]]]]
  /\ UNCHANGED <<store, files, byteStoreOk, clock, nextNode, nextAtt>>

\* ------------------------------------------------------- Attachment Store
\* rel_path = Path(str(node_id)) / str(attachment_id)
RelPath(node_id, attachment_id) == <<node_id, attachment_id>>

\* POST /attachment
CreateAttachmentBegin(p) ==
  /\ nextAtt + Creating("create_attachment") <= MaxAtts
  /\ \E node_id \in NodeIds :
       Begin(p, [op |-> "create_attachment", node_id |-> node_id], "ca_node")
  /\ UNCHANGED <<store, files, byteStoreOk, clock, nextNode, nextAtt>>

CreateAttachmentNode(p) ==
  /\ At(p, "create_attachment", "ca_node")
  /\ IF proc[p].req.node_id \in DOMAIN nodes
     THEN Goto(p, "ca_write", NoLoc)
     ELSE Respond(p, 404, "Node not found", [none |-> TRUE])
  /\ UNCHANGED <<store, files, byteStoreOk, clock, nextNode, nextAtt>>

CreateAttachmentWrite_FailureIgnored(p) ==
  /\ At(p, "create_attachment", "ca_write")
  /\ LET path == RelPath(proc[p].req.node_id, nextAtt) IN
       /\ files' = (IF byteStoreOk THEN files \cup {path} ELSE files)
       /\ Goto(p, "ca_commit", [id |-> nextAtt, file_path |-> path])
  /\ nextAtt' = nextAtt + 1
  /\ UNCHANGED <<store, byteStoreOk, clock, nextNode>>

\* attachment_id = uuid4(); the bytes are copied to full_path.  When the
\* byte store fails the exception propagates, and the file may or may not
\* have been created by open("wb") before the failure
CreateAttachmentWrite(p) ==
  /\ At(p, "create_attachment", "ca_write")
  /\ LET path == RelPath(proc[p].req.node_id, nextAtt) IN
     IF byteStoreOk
     THEN /\ files' = files \cup {path}
          /\ Goto(p, "ca_commit", [id |-> nextAtt, file_path |-> path])
     ELSE /\ files' \in {files, files \cup {path}}
          /\ Raise(p, "OSError")
  /\ nextAtt' = nextAtt + 1
  /\ UNCHANGED <<store, byteStoreOk, clock, nextNode>>

CreateAttachmentCommit_FileKept(p) ==
  /\ At(p, "create_attachment", "ca_commit")
  /\ LET r == proc[p].req
         l == proc[p].loc IN
     IF \/ r.node_id \notin DOMAIN nodes
        \/ \E a \in DOMAIN attachments : attachments[a].file_path = l.file_path
     THEN /\ Respond(p, 409, "Attachment already exists", [none |-> TRUE])
          /\ UNCHANGED attachments
     ELSE /\ attachments' = Put(attachments, l.id,
                                [node_id |-> r.node_id,
                                 file_path |-> l.file_path])
          /\ Goto(p, "ca_refresh", l)
  /\ UNCHANGED <<kinds, edges_kinds, nodes, edges, files, byteStoreOk, clock,
                 nextNode, nextAtt>>

\* attachments.node_id references nodes.id and file_path is unique: the
\* IntegrityError of either is answered by removing the file and 409
CreateAttachmentCommit(p) ==
  /\ At(p, "create_attachment", "ca_commit")
  /\ LET r == proc[p].req
         l == proc[p].loc IN
     IF \/ r.node_id \notin DOMAIN nodes
        \/ \E a \in DOMAIN attachments : attachments[a].file_path = l.file_path
     THEN /\ files' = Unlinked({l.file_path})
          /\ Respond(p, 409, "Attachment already exists", [none |-> TRUE])
          /\ UNCHANGED attachments
     ELSE /\ attachments' = Put(attachments, l.id,
                                [node_id |-> r.node_id,
                                 file_path |-> l.file_path])
          /\ Goto(p, "ca_refresh", l)
          /\ UNCHANGED files
  /\ UNCHANGED <<kinds, edges_kinds, nodes, edges, byteStoreOk, clock,
                 nextNode, nextAtt>>

CreateAttachmentRefresh(p) ==
  /\ At(p, "create_attachment", "ca_refresh")
  /\ LET id == proc[p].loc.id IN
     IF id \in DOMAIN attachments
     THEN Respond(p, 200, "ok", [id |-> id,
                                 node_id |-> attachments[id].node_id])
     ELSE Raise(p, "InvalidRequestError")
  /\ UNCHANGED <<store, files, byteStoreOk, clock, nextNode, nextAtt>>

create_attachment(p) ==
  \/ CreateAttachmentBegin(p)
  \/ CreateAttachmentNode(p)
  \/ CreateAttachmentWrite(p)
  \/ CreateAttachmentCommit(p)
  \/ CreateAttachmentRefresh(p)

GetAttachmentResponse_FileUnchecked(id) ==
  IF id \notin DOMAIN attachments
  THEN [status |-> 404, detail |-> "Attachment not found",
        body |-> [none |-> TRUE]]
  ELSE IF attachments[id].file_path \notin files
  THEN [status |-> 500, detail |-> "RuntimeError", body |-> [none |-> TRUE]]
  ELSE [status |-> 200, detail |-> "ok", body |-> [id |-> id]]

\* GET /attachment/{id}
GetAttachmentResponse(id) ==
  IF id \notin DOMAIN attachments
  THEN [status |-> 404, detail |-> "Attachment not found",
        body |-> [none |-> TRUE]]
  ELSE IF attachments[id].file_path \notin files
  THEN [status |-> 404, detail |-> "Attachment file missing",
        body |-> [none |-> TRUE]]
  ELSE [status |-> 200, detail |-> "ok", body |-> [id |-> id]]

get_attachment(p) ==
  /\ Free(p)
  /\ \E id \in AttIds :
       proc' = [proc EXCEPT ![p] =
                  [pc |-> "done", req |-> [op |-> "get_attachment", id |-> id],
                   loc |-> NoLoc, res |-> GetAttachmentResponse(id)]]
  /\ UNCHANGED <<store, files, byteStoreOk, clock, nextNode, nextAtt>>

\* DELETE /attachment/{id}
DeleteAttachmentBegin(p) ==
  /\ \E id \in AttIds :
       Begin(p, [op |-> "delete_attachment", id |-> id], "da_get")
  /\ UNCHANGED <<store, files, byteStoreOk, clock, nextNode, nextAtt>>

DeleteAttachmentGet(p) ==
  /\ At(p, "delete_attachment", "da_get")
  /\ LET id == proc[p].req.id IN
     IF id \in DOMAIN attachments
     THEN Goto(p, "da_commit", [file_path |-> attachments[id].file_path])
     ELSE Respond(p, 404, "Attachment not found", [none |-> TRUE])
  /\ UNCHANGED <<store, files, byteStoreOk, clock, nextNode, nextAtt>>

DeleteAttachmentCommit_FailureRaised(p) ==
  /\ At(p, "delete_attachment", "da_commit")
  /\ IF byteStoreOk
     THEN /\ files' = files \ {proc[p].loc.file_path}
          /\ attachments' = Remove(attachments, proc[p].req.id)
          /\ Respond(p, 200, "ok", OkBody)
     ELSE /\ Raise(p, "OSError")
          /\ UNCHANGED <<files, attachments>>
  /\ UNCHANGED <<kinds, edges_kinds, nodes, edges, byteStoreOk, clock,
                 nextNode, nextAtt>>

DeleteAttachmentCommit(p) ==
  /\ At(p, "delete_attachment", "da_commit")
  /\ files' = Unlinked({proc[p].loc.file_path})
  /\ attachments' = Remove(attachments, proc[p].req.id)
  /\ Respond(p, 200, "ok", OkBody)
  /\ UNCHANGED <<kinds, edges_kinds, nodes, edges, byteStoreOk, clock,
                 nextNode, nextAtt>>

delete_attachment(p) ==
  \/ DeleteAttachmentBegin(p)
  \/ DeleteAttachmentGet(p)
  \/ DeleteAttachmentCommit(p)

\* the byte store (the attachments directory) starts or stops failing
ByteStoreChange ==
  /\ byteStoreOk' = ~byteStoreOk
  /\ UNCHANGED <<store, files, clock, nextNode, nextAtt, proc>>

\* bytes vanish from the attachments directory outside the program: the
\* case full_path.exists() guards against
ByteStoreLoss ==
  /\ \E f \in files : files' = files \ {f}
  /\ UNCHANGED <<store, byteStoreOk, clock, nextNode, nextAtt, proc>>

\* --------------------------------------------------------- specifications
Handler(p) ==
  \/ create_kind(p)
  \/ delete_kind(p)
  \/ create_edges_kind(p)
  \/ delete_edges_kind(p)
  \/ create_node(p)
  \/ get_node(p)
  \/ update_node(p)
  \/ search_nodes(p)
  \/ delete_node(p)
  \/ create_edge(p)
  \/ outgoing_edges(p)
  \/ incoming_edges(p)
  \/ edges_between(p)
  \/ delete_edge(p)
  \/ create_attachment(p)
  \/ get_attachment(p)
  \/ delete_attachment(p)

\* requests are served concurrently: any interleaving of handler steps
Next == (\E p \in Procs : Handler(p)) \/ ByteStoreChange

Spec == Init /\ [][Next]_vars

\* the kind names a request mentions
KindsNamed(r) ==
  IF r.op \in {"create_kind", "delete_kind"} THEN {r.name}
  ELSE IF r.op = "create_node" THEN {r.kind}
  ELSE IF r.op \in {"create_edges_kind", "delete_edges_kind"}
  THEN {r.from_kind, r.to_kind}
  ELSE {}

\* the payloads a request carries
PayloadsNamed(r) ==
  IF r.op \in {"create_node", "update_node"} THEN {r.payload} ELSE {}

\* the kind registry and the node store
KindHandler(p) ==
  \/ create_kind(p)
  \/ delete_kind(p)
  \/ create_node(p)
  \/ update_node(p)
  \/ delete_node(p)

\* requests about kind "a" are served concurrently: any interleaving of the
\* handlers' steps
KindNext ==
  \E p \in Procs :
    /\ KindHandler(p)
    /\ KindsNamed(proc'[p].req) \subseteq {"a"}
    /\ PayloadsNamed(proc'[p].req) \subseteq {PayloadOn, PayloadNameOnly}

KindSpec == Init /\ [][KindNext]_vars

\* one request at a time: a handler runs from its first step to its
\* response before the next request (of any client) is served
Quiet(p) == \A q \in Procs \ {p} : Free(q)

SeqKindNext ==
  \E p \in Procs :
    /\ Quiet(p)
    /\ KindHandler(p) \/ get_node(p)
    /\ KindsNamed(proc'[p].req) \subseteq {"a"}

SeqKindSpec == Init /\ [][SeqKindNext]_vars

\* the store after two kinds were registered and one node of each created
InitEdge ==
  /\ kinds = [k \in KindNames |-> SchemaObject]
  /\ edges_kinds = {}
  /\ nodes = [i \in {1, 2} |->
                [kind |-> IF i = 1 THEN "a" ELSE "b",
                 payload |-> Jsonb(PayloadOn),
                 created_at |-> 0, updated_at |-> 0]]
  /\ edges = {}
  /\ attachments = [i \in {} |-> 0]
  /\ files = {}
  /\ byteStoreOk = TRUE
  /\ clock = 0
  /\ nextNode = 3
  /\ nextAtt = 1
  /\ proc = [p \in Procs |-> Idle]

\* the edge-kind registry and the edge store over these nodes
EdgeHandler(p) ==
  \/ create_edges_kind(p)
  \/ delete_edges_kind(p)
  \/ create_edge(p)
  \/ delete_edge(p)
  \/ delete_node(p)

\* clients ask for edges out of node 1 and edge kinds out of kind "a"
EdgeScope(r) ==
  /\ r.op \in {"create_edges_kind", "delete_edges_kind"} => r.from_kind = "a"
  /\ r.op \in {"create_edge", "delete_edge"} => r.from_id = 1

\* these requests are served concurrently: any interleaving of the
\* handlers' steps
EdgeNext == \E p \in Procs : EdgeHandler(p) /\ EdgeScope(proc'[p].req)

EdgeSpec == InitEdge /\ [][EdgeNext]_vars

SeqEdgeNext ==
  \E p \in Procs : Quiet(p) /\ EdgeHandler(p) /\ EdgeScope(proc'[p].req)

SeqEdgeSpec == InitEdge /\ [][SeqEdgeNext]_vars

\* the store after kind "a", the edge kind (a, a, link) and two nodes of
\* kind "a" were created
InitAtt ==
  /\ kinds = [k \in {"a"} |-> SchemaObject]
  /\ edges_kinds = {<<"a", "a", "link">>}
  /\ nodes = [i \in {1, 2} |->
                [kind |-> "a", payload |-> Jsonb(PayloadOn),
                 created_at |-> 0, updated_at |-> 0]]
  /\ edges = {}
  /\ attachments = [i \in {} |-> 0]
  /\ files = {}
  /\ byteStoreOk = TRUE
  /\ clock = 0
  /\ nextNode = 3
  /\ nextAtt = 1
  /\ proc = [p \in Procs |-> Idle]

\* the attachment store and the cascade of delete_node
AttHandler(p) ==
  \/ create_edge(p)
  \/ create_attachment(p)
  \/ get_attachment(p)
  \/ delete_attachment(p)
  \/ delete_node(p)

SeqAttNext ==
  \/ \E p \in Procs : Quiet(p) /\ AttHandler(p)
  \/ (\A q \in Procs : Free(q)) /\ ByteStoreChange

SeqAttSpec == InitAtt /\ [][SeqAttNext]_vars

\* the attachment routes served one at a time over a byte store that may
\* also lose bytes between two requests
SeqGetNext ==
  \/ \E p \in Procs : Quiet(p) /\ AttHandler(p)
  \/ (\A q \in Procs : Free(q)) /\ ByteStoreChange
  \/ (\A q \in Procs : Free(q)) /\ ByteStoreLoss

SeqGetSpec == InitAtt /\ [][SeqGetNext]_vars

\* the same routes served concurrently over a byte store that never fails
AttOkNext == \E p \in Procs : AttHandler(p)

AttOkSpec == InitAtt /\ [][AttOkNext]_vars

AttNext == (\E p \in Procs : AttHandler(p)) \/ ByteStoreChange

AttSpec == InitAtt /\ [][AttNext]_vars

\* inputs of the validator beyond those the node handlers are driven with:
\* payloads with wrongly typed values, and a schema of two boolean
\* properties
PayloadNameBool   == [name |-> Bool(TRUE)]
PayloadActiveText == [is_active |-> Str(Ada)]
PayloadTexts      == [name |-> Str(Ada), is_active |-> Str(Ada)]
PayloadSwapped    == [name |-> Bool(TRUE), is_active |-> Str(Ada)]
ValidatorPayloads ==
  Payloads \cup {PayloadNameBool, PayloadActiveText, PayloadTexts,
                 PayloadSwapped}

SchemaFlags == [required   |-> {},
                properties |-> [name |-> "boolean", is_active |-> "boolean"]]
ValidatorSchemas == Schemas \cup {SchemaFlags}

\* one run of _validate_payload(schema, payload): iter_errors yields the
\* errors in some order, sorted(.., key=str) orders them, and the dicts are
\* returned
ValidatePayload(p) ==
  /\ Free(p)
  /\ \E schema \in ValidatorSchemas, payload \in ValidatorPayloads :
       \E ord \in Orders(IterErrors(schema, payload)) :
         proc' = [proc EXCEPT ![p] =
                    [pc  |-> "done",
                     req |-> [op |-> "_validate_payload", schema |-> schema,
                              payload |-> payload],
                     loc |-> [order |-> ord],
                     res |-> [status |-> 0, detail |-> "none",
                              body |-> [errors |->
                                          ErrorDicts(SortErrors(ord))]]]]
  /\ UNCHANGED <<store, files, byteStoreOk, clock, nextNode, nextAtt>>

\* runs of the validator, with kind "a" registered and deleted in between
ValidateNext ==
  \E p \in Procs :
    /\ ValidatePayload(p) \/ create_kind(p) \/ delete_kind(p)
    /\ KindsNamed(proc'[p].req) \subseteq {"a"}

ValidateSpec == Init /\ [][ValidateNext]_vars

\* the store after kind "a" was registered and two nodes of it created
InitRace ==
  /\ kinds = [k \in {"a"} |-> SchemaObject]
  /\ edges_kinds = {}
  /\ nodes = [i \in {1, 2} |->
                [kind |-> "a", payload |-> Jsonb(PayloadOn),
                 created_at |-> 0, updated_at |-> 0]]
  /\ edges = {}
  /\ attachments = [i \in {} |-> 0]
  /\ files = {}
  /\ byteStoreOk = TRUE
  /\ clock = 0
  /\ nextNode = 3
  /\ nextAtt = 1
  /\ proc = [p \in Procs |-> Idle]

\* callers that create kinds, edge kinds and edges
CreateHandler(p) ==
  \/ create_kind(p)
  \/ create_edges_kind(p)
  \/ create_edge(p)

\* the creates are served concurrently: any interleaving of their steps
CreateRaceNext == \E p \in Procs : CreateHandler(p)

CreateRaceSpec == InitRace /\ [][CreateRaceNext]_vars

\* the two registries
RegistryHandler(p) ==
  \/ create_kind(p)
  \/ delete_kind(p)
  \/ create_edges_kind(p)
  \/ delete_edges_kind(p)

RegistryNext == \E p \in Procs : RegistryHandler(p)

RegistrySpec == Init /\ [][RegistryNext]_vars

SeqRegistryNext == \E p \in Procs : Quiet(p) /\ RegistryHandler(p)

SeqRegistrySpec == Init /\ [][SeqRegistryNext]_vars

\* the edge store and its three listings, one request at a time
ListHandler(p) ==
  \/ create_edge(p)
  \/ delete_edge(p)
  \/ delete_node(p)
  \/ outgoing_edges(p)
  \/ incoming_edges(p)
  \/ edges_between(p)

SeqListNext == \E p \in Procs : Quiet(p) /\ ListHandler(p)

SeqListSpec == InitAtt /\ [][SeqListNext]_vars

\* the search compiler over two stored nodes, the first of kind "a": a
\* person on, off and without is_active; is_active 1 and is_active a text;
\* a null name; a nested profile.bio; a list as name and a null bio
PayloadOne  == [name |-> Str(Ada), is_active |-> Num(1)]
PayloadNull == [name |-> Null, is_active |-> Bool(TRUE)]
PayloadBio  == [name |-> Str(<<"X">>), profile |-> BioAda]
PayloadList == [name |-> Arr(<<Num(1)>>),
                profile |-> Obj(<<<<"bio", Null>>>>)]

\* a name that is the list [0, 1] and one that is [1, 0]; the names a_cd
\* and abcd
PayloadZeroOne == [name |-> ZeroOne]
PayloadOneZero == [name |-> Arr(<<Num(1), Num(0)>>)]
PayloadA_cd    == [name |-> Str(<<"a", "_", "c", "d">>)]
PayloadAbcd    == [name |-> Str(<<"a", "b", "c", "d">>)]

SearchPayloads ==
  {PayloadOn, PayloadOff, PayloadNameOnly, PayloadActiveText, PayloadOne,
   PayloadNull, PayloadBio, PayloadList, PayloadZeroOne, PayloadOneZero,
   PayloadA_cd, PayloadAbcd}

InitSearch ==
  /\ kinds = [k \in {"a", "b"} |-> SchemaObject]
  /\ edges_kinds = {}
  /\ \E k \in {"a", "b"}, first \in SearchPayloads, second \in SearchPayloads :
       nodes = (1 :> [kind |-> "a", payload |-> Jsonb(first),
                      created_at |-> 0, updated_at |-> 0])
               @@ (2 :> [kind |-> k, payload |-> Jsonb(second),
                         created_at |-> 0, updated_at |-> 0])
  /\ edges = {}
  /\ attachments = [i \in {} |-> 0]
  /\ files = {}
  /\ byteStoreOk = TRUE
  /\ clock = 0
  /\ nextNode = 3
  /\ nextAtt = 1
  /\ proc = [p \in Procs |-> Idle]

\* one search is answered over the stored nodes
SearchNext ==
  /\ \A q \in Procs : proc[q].pc = "idle"
  /\ \E p \in Procs : search_nodes(p)

SearchSpec == InitSearch /\ [][SearchNext]_vars

\* ------------------------------------------------------------- properties
\* the step with which a handler answers its request
Finishes(p) == ~Free(p) /\ proc'[p].pc = "done"

Answered(p, op, status) ==
  proc[p].pc = "done" /\ proc[p].req.op = op /\ proc[p].res.status = status

\* C1: in every reachable state each stored node's payload validates
\* against the schema registered under the node's kind name, also when the
\* kind is deleted and registered again with another schema while a
\* create_node of that kind is in flight
C1_PayloadValidatesAlways ==
  \A i \in DOMAIN nodes :
    /\ nodes[i].kind \in DOMAIN kinds
    /\ _validate_payload(kinds[nodes[i].kind],
                         FromJsonb(nodes[i].payload)) = <<>>

\* C3: under any interleaving of delete_kind(name) and create_node(name, ..)
\* every stored node's kind names a stored kind
C3_NodeKindStored ==
  \A i \in DOMAIN nodes : nodes[i].kind \in DOMAIN kinds

\* a create_node lost the race against a delete_kind of its kind
C3_CreateLostRace ==
  \E p \in Procs, q \in Procs :
    /\ Answered(p, "create_node", 500)
    /\ proc[p].res.detail = "IntegrityError"
    /\ Answered(q, "delete_kind", 200)
    /\ proc[q].req.name = proc[p].req.kind

\* C4: delete_kind(name) answers 400 and keeps the kind while a node has
\* kind = name, and answers 200 and removes the kind once no node has
C4_DeleteKindBlockedWhileReferenced ==
  [][\A p \in Procs :
       (Finishes(p) /\ proc[p].req.op = "delete_kind") =>
         LET name       == proc[p].req.name
             stored     == name \in DOMAIN kinds
             referenced == \E i \in DOMAIN nodes : nodes[i].kind = name
             res        == proc'[p].res
         IN  /\ (stored /\ referenced) =>
                  /\ res.status = 400
                  /\ res.detail = "Cannot delete kind with existing nodes"
                  /\ kinds' = kinds
             /\ (stored /\ ~referenced) =>
                  /\ res.status = 200
                  /\ name \notin DOMAIN kinds']_vars

\* the delete was refused while a node existed and accepted afterwards
C4_RefusedThenDeleted ==
  \E p \in Procs, q \in Procs :
    /\ Answered(p, "delete_kind", 400)
    /\ Answered(q, "delete_kind", 200)
    /\ proc[p].req.name = proc[q].req.name
    /\ proc[p].req.name \notin DOMAIN kinds

\* C9: the node a successful create_node returns has created_at equal to
\* updated_at, and so has the node an immediate get_node returns
C9_CreatedEqualsUpdated ==
  \A p \in Procs :
    Answered(p, "create_node", 200) =>
      LET node == proc[p].res.body
          got  == GetNodeResponse(node.id)
      IN  /\ node.created_at = node.updated_at
          /\ got.status = 200 =>
                /\ got.body.created_at = node.created_at
                /\ got.body.updated_at = node.updated_at

\* C10: a successful update_node stores the given payload and sets
\* updated_at to a value strictly greater than the previous one
C10_UpdateBumpsUpdatedAt ==
  [][\A p \in Procs :
       (At(p, "update_node", "un_commit") /\ proc'[p].pc = "un_refresh") =>
         LET id == proc[p].req.id
         IN  /\ id \in DOMAIN nodes'
             /\ FromJsonb(nodes'[id].payload) = proc[p].req.payload
             /\ nodes'[id].updated_at > nodes[id].updated_at]_vars

\* the edge kind an edge instantiates: (from_node.kind, to_node.kind, relation)
KindOfEdge(e) == <<nodes[e[1]].kind, nodes[e[2]].kind, e[3]>>

EndpointsStored(e) == e[1] \in DOMAIN nodes /\ e[2] \in DOMAIN nodes

EdgeOfRequest(r) == <<r.from_id, r.to_id, r.relation>>

EdgeKindOfRequest(r) == <<r.from_kind, r.to_kind, r.relation>>

\* C2: under any interleaving of create_edge and delete_edges_kind every
\* stored edge has a stored edge kind (from_node.kind, to_node.kind, relation)
C2_EdgeHasEdgeKind ==
  \A e \in edges : EndpointsStored(e) /\ KindOfEdge(e) \in edges_kinds

\* C5: delete_edges_kind answers 400 and keeps the edge kind while an edge
\* with that relation joins a node of from_kind to a node of to_kind, and
\* answers 200 and removes it once no such edge is stored
C5_DeleteEdgesKindBlockedWhileUsed ==
  [][\A p \in Procs :
       (Finishes(p) /\ proc[p].req.op = "delete_edges_kind") =>
         LET ek     == EdgeKindOfRequest(proc[p].req)
             stored == ek \in edges_kinds
             used   == \E e \in edges : EndpointsStored(e) /\ KindOfEdge(e) = ek
             res    == proc'[p].res
         IN  /\ (stored /\ used) =>
                  /\ res.status = 400
                  /\ res.detail =
                       "Cannot delete edges kind used by existing edges"
                  /\ edges_kinds' = edges_kinds
             /\ (stored /\ ~used) =>
                  /\ res.status = 200
                  /\ ek \notin edges_kinds']_vars

\* the delete was refused while an edge used the kind and accepted afterwards
C5_RefusedThenDeleted ==
  \E p \in Procs, q \in Procs :
    /\ Answered(p, "delete_edges_kind", 400)
    /\ Answered(q, "delete_edges_kind", 200)
    /\ EdgeKindOfRequest(proc[p].req) = EdgeKindOfRequest(proc[q].req)
    /\ EdgeKindOfRequest(proc[p].req) \notin edges_kinds

\* C6: create_edge between two stored nodes answers 400 and stores no edge
\* when no edge kind (from_node.kind, to_node.kind, relation) is registered,
\* and succeeds once that edge kind is registered
C6_CreateEdgeNeedsEdgeKind ==
  [][\A p \in Procs :
       (Finishes(p) /\ proc[p].req.op = "create_edge") =>
         LET e   == EdgeOfRequest(proc[p].req)
             res == proc'[p].res
         IN  EndpointsStored(e) =>
               /\ KindOfEdge(e) \notin edges_kinds =>
                    /\ res.status = 400
                    /\ res.detail =
                         "Edge relationship not allowed by edges-kinds"
                    /\ edges' = edges
                    /\ e \notin edges'
               /\ (/\ KindOfEdge(e) \in edges_kinds
                   /\ e \notin edges \/ proc[p].pc = "ce_refresh") =>
                    /\ res.status = 200
                    /\ e \in edges']_vars

\* the same create_edge was refused, and accepted after the edge kind was
\* registered
C6_RefusedThenCreated ==
  \E p \in Procs, q \in Procs :
    /\ Answered(p, "create_edge", 400)
    /\ proc[p].res.detail = "Edge relationship not allowed by edges-kinds"
    /\ Answered(q, "create_edge", 200)
    /\ EdgeOfRequest(proc[p].req) = EdgeOfRequest(proc[q].req)
    /\ EdgeOfRequest(proc[p].req) \in edges

\* C7: create_edge of a stored (from_id, to_id, relation) ends at its insert
\* with 409 and leaves the edges as they are; create_edge of a triple that
\* is not stored, between stored nodes with a registered Edge-Kind, stores
\* exactly that edge and answers 200; delete_edge removes the edge, so the
\* same create_edge succeeds afterwards
C7_DuplicateEdgeConflicts ==
  [][\A p \in Procs :
       /\ (proc[p].req.op = "create_edge" /\ proc'[p] # proc[p]) =>
            LET e   == EdgeOfRequest(proc[p].req)
                res == proc'[p].res
                ok  == EndpointsStored(e) /\ KindOfEdge(e) \in edges_kinds
            IN  /\ (proc[p].pc = "ce_commit" /\ e \in edges) =>
                     /\ Finishes(p)
                     /\ res.status = 409
                     /\ edges' = edges
                /\ (proc[p].pc = "ce_commit" /\ e \notin edges /\ ok) =>
                     /\ ~Finishes(p)
                     /\ edges' = edges \cup {e}
                /\ (proc[p].pc = "ce_refresh" /\ e \in edges) =>
                     /\ Finishes(p)
                     /\ res.status = 200
                     /\ edges' = edges
                /\ (Finishes(p) /\ proc[p].pc \notin {"ce_commit", "ce_refresh"}) =>
                     /\ ~ok
                     /\ e \notin edges
       /\ (Finishes(p) /\ proc[p].req.op = "delete_edge") =>
            LET e == EdgeOfRequest(proc[p].req)
            IN  e \in edges =>
                  /\ proc'[p].res.status = 200
                  /\ edges' = edges \ {e}]_vars

\* a second create_edge of a stored edge was answered 409
C7_SecondCreateConflicts ==
  \E p \in Procs, q \in Procs :
    /\ Answered(p, "create_edge", 409)
    /\ Answered(q, "create_edge", 200)
    /\ EdgeOfRequest(proc[p].req) = EdgeOfRequest(proc[q].req)
    /\ EdgeOfRequest(proc[p].req) \in edges

\* what delete_node(id) leaves of the node's edges and attachment rows: no
\* edge with from_id = id or to_id = id, no attachment with node_id = id,
\* and NotFound for a get of each of these attachments
CascadeDone(id) ==
  /\ \A e \in edges' : e[1] # id /\ e[2] # id
  /\ \A a \in AttachmentsOf(id) :
       /\ a \notin DOMAIN attachments'
       /\ GetAttachmentResponse(a)'.status = 404

ValidationFailed(res, schema, payload) ==
  /\ res.status = 400
  /\ res.detail = "Payload does not match schema"
  /\ res.body = [errors |-> _validate_payload(schema, payload)]
  /\ Len(res.body.errors) >= 1

\* a payload violates a schema when a required key is missing or a value
\* has another type than its property declares
Violates(schema, payload) ==
  \/ \E k \in schema.required : k \notin DOMAIN payload
  \/ \E k \in DOMAIN payload \cap DOMAIN schema.properties :
       payload[k].t # schema.properties[k]

\* C11: create_node and update_node with a payload that violates the kind's
\* schema end at the validation with ValidationFailed and at least one
\* error, and leave the store as it is: no node is created, the node's
\* payload and updated_at keep their values; no insert or update is
\* committed with a payload that violates the schema
C11_InvalidPayloadRejected ==
  [][\A p \in Procs :
       /\ (At(p, "create_node", "cn_get") /\ proc'[p] # proc[p]) =>
            LET r == proc[p].req
            IN  (r.kind \in DOMAIN kinds
                   /\ Violates(kinds[r.kind], r.payload)) =>
                  /\ Finishes(p)
                  /\ ValidationFailed(proc'[p].res, kinds[r.kind], r.payload)
                  /\ UNCHANGED <<store, nextNode>>
       /\ (At(p, "update_node", "un_kind") /\ proc'[p] # proc[p]) =>
            LET r == proc[p].req
            IN  (/\ r.id \in DOMAIN nodes
                 /\ nodes[r.id].kind \in DOMAIN kinds
                 /\ Violates(kinds[nodes[r.id].kind], r.payload)) =>
                  /\ Finishes(p)
                  /\ ValidationFailed(proc'[p].res, kinds[nodes[r.id].kind],
                                      r.payload)
                  /\ UNCHANGED store
       /\ (At(p, "create_node", "cn_commit") /\ nodes' # nodes) =>
            ~Violates(kinds[proc[p].req.kind], proc[p].req.payload)
       /\ (At(p, "update_node", "un_commit") /\ nodes' # nodes) =>
            ~Violates(kinds[nodes[proc[p].req.id].kind],
                      proc[p].req.payload)]_vars

\* a create_node and an update_node were both answered ValidationFailed, and
\* the node of the update is stored with a payload other than the refused one
C11_BothRefused ==
  \E p \in Procs, q \in Procs :
    /\ Answered(p, "create_node", 400)
    /\ proc[p].res.detail = "Payload does not match schema"
    /\ Answered(q, "update_node", 400)
    /\ proc[q].res.detail = "Payload does not match schema"
    /\ proc[q].req.id \in DOMAIN nodes
    /\ FromJsonb(nodes[proc[q].req.id].payload) # proc[q].req.payload

\* C12: when create_node answers 200 for (kind, payload), the get_node of
\* the returned id that follows immediately answers 200 with a payload equal
\* to the input payload and with the same kind
C12_CreateThenGet ==
  [][\A p \in Procs, id \in NodeIds :
       (/\ Finishes(p)
        /\ proc[p].req.op = "create_node"
        /\ proc'[p].res.status = 200
        /\ proc'[p].res.body.id = id) =>
         LET r    == proc[p].req
             node == proc'[p].res.body
             got  == GetNodeResponse(id)'
         IN  /\ node.payload = r.payload
             /\ node.kind = r.kind
             /\ got.status = 200
             /\ got.body.id = id
             /\ got.body.payload = r.payload
             /\ got.body.kind = r.kind]_vars

\* a node was created and a get_node of the returned id answered with the
\* payload and kind of the create
C12_CreatedAndGot ==
  \E p \in Procs, q \in Procs :
    /\ Answered(p, "create_node", 200)
    /\ Answered(q, "get_node", 200)
    /\ proc[q].req.id = proc[p].res.body.id
    /\ proc[q].res.body.payload = proc[p].req.payload
    /\ proc[q].res.body.kind = proc[p].req.kind
    /\ proc[p].req.payload = PayloadOn

\* C13: two runs of the validator on the same (schema, payload) return the
\* same errors in the same order, whatever order the errors were found in
\* and whatever the store holds or underwent in between
C13_ValidationDeterministic ==
  \A p \in Procs, q \in Procs :
    (/\ Answered(p, "_validate_payload", 0)
     /\ Answered(q, "_validate_payload", 0)
     /\ proc[p].req.schema = proc[q].req.schema
     /\ proc[p].req.payload = proc[q].req.payload) =>
      /\ proc[p].res.body.errors = proc[q].res.body.errors
      /\ proc[p].res.body.errors =
           _validate_payload(proc[p].req.schema, proc[p].req.payload)

\* two runs on the same input found its two errors in different orders,
\* with a kind registered
C13_TwoRunsTwoOrders ==
  \E p \in Procs, q \in Procs :
    /\ Answered(p, "_validate_payload", 0)
    /\ Answered(q, "_validate_payload", 0)
    /\ proc[p].req = proc[q].req
    /\ proc[p].loc.order # proc[q].loc.order
    /\ Len(proc[p].res.body.errors) = 2
    /\ "a" \in DOMAIN kinds

\* the key a create request asks for
KeyOfRequest(r) ==
  IF r.op = "create_kind" THEN <<r.name>>
  ELSE IF r.op = "create_edges_kind" THEN EdgeKindOfRequest(r)
  ELSE EdgeOfRequest(r)

KeyStored(r) ==
  IF r.op = "create_kind" THEN r.name \in DOMAIN kinds
  ELSE IF r.op = "create_edges_kind" THEN EdgeKindOfRequest(r) \in edges_kinds
  ELSE EdgeOfRequest(r) \in edges

\* C14: of the callers that create the same kind name, edge-kind triple or
\* edge triple concurrently, the one whose write comes first stores the row
\* and is answered 200, and every write that comes after it is answered 409
\* and changes nothing: no two creates of one key succeed
C14_OneCreateWins ==
  [][\A p \in Procs :
       (proc[p].req.op \in {"create_kind", "create_edges_kind", "create_edge"}
          /\ proc'[p] # proc[p]) =>
         LET r == proc[p].req
         IN  /\ (proc[p].pc \in {"ck_commit", "cek_commit", "ce_commit"}
                   /\ KeyStored(r)) =>
                  /\ Finishes(p)
                  /\ proc'[p].res.status = 409
                  /\ UNCHANGED store
             /\ (proc[p].pc \in {"ck_commit", "cek_commit", "ce_commit"}
                   /\ ~KeyStored(r)) =>
                  /\ ~Finishes(p)
                  /\ KeyStored(r)'
             /\ proc[p].pc \in {"ck_refresh", "cek_return", "ce_refresh"} =>
                  /\ Finishes(p)
                  /\ proc'[p].res.status = 200
                  /\ \A q \in Procs \ {p} :
                       (proc[q].req.op = r.op
                          /\ KeyOfRequest(proc[q].req) = KeyOfRequest(r)) =>
                         /\ proc[q].pc \notin {"ck_refresh", "cek_return",
                                               "ce_refresh"}
                         /\ proc[q].pc = "done" => proc[q].res.status # 200]_vars

\* two callers created the same key at the same time: one was answered 409
\* while the other, whose write came first, had not been answered yet
C14_LoserAnsweredFirst ==
  \E p \in Procs, q \in Procs :
    /\ proc[p].pc = "done"
    /\ proc[p].res.status = 409
    /\ proc[q].pc \in {"ck_refresh", "cek_return", "ce_refresh"}
    /\ proc[q].req.op = proc[p].req.op
    /\ KeyOfRequest(proc[q].req) = KeyOfRequest(proc[p].req)

\* C15: create_kind with a registered name answers 409 and leaves the kinds
\* as they are, and no step of any operation changes the schema of a kind
\* that stays stored
C15_KindSchemaImmutable ==
  [][/\ \A name \in DOMAIN kinds \cap DOMAIN kinds' :
          kinds'[name] = kinds[name]
     /\ \A p \in Procs :
          (/\ At(p, "create_kind", "ck_commit")
           /\ proc'[p] # proc[p]
           /\ proc[p].req.name \in DOMAIN kinds) =>
            /\ Finishes(p)
            /\ proc'[p].res.status = 409
            /\ proc'[p].res.detail = "Kind already exists"
            /\ kinds' = kinds]_vars

\* a create_kind that brought another schema for a registered name was
\* answered 409, and the kind has the schema it had
C15_OtherSchemaRefused ==
  \E p \in Procs :
    /\ Answered(p, "create_kind", 409)
    /\ proc[p].req.name \in DOMAIN kinds
    /\ proc[p].req.schema = SchemaPerson
    /\ kinds[proc[p].req.name] = SchemaObject

C17_UnknownKindRejected ==
  [][\A p \in Procs :
       (/\ proc[p].req.op = "create_node"
        /\ ~Free(p)
        /\ proc'[p] # proc[p]
        /\ proc[p].req.kind \notin DOMAIN kinds) =>
         /\ proc[p].pc = "cn_get"
         /\ Finishes(p)
         /\ proc'[p].res = [status |-> 400, detail |-> "Unknown kind",
                            body |-> [none |-> TRUE]]
         /\ UNCHANGED <<store, nextNode>>]_vars

\* two create_node requests with different payloads were answered 400
\* "Unknown kind", one of them with a payload that lacks a required key of
\* the person schema, and no node is stored
C17_UnknownKindTwice ==
  \E p \in Procs, q \in Procs :
    /\ Answered(p, "create_node", 400)
    /\ proc[p].res.detail = "Unknown kind"
    /\ proc[p].req.payload = PayloadNameOnly
    /\ Answered(q, "create_node", 400)
    /\ proc[q].res.detail = "Unknown kind"
    /\ proc[q].req.payload = PayloadOn
    /\ DOMAIN nodes = {}

\* C18: no step of update_node, successful or failed, adds or removes a
\* node id or changes a node's kind or created_at; as no other operation
\* changes them either, a stored node keeps the id, kind and created_at of
\* its creation
C18_UpdateKeepsIdentity ==
  [][/\ \A i \in DOMAIN nodes \cap DOMAIN nodes' :
          /\ nodes'[i].kind = nodes[i].kind
          /\ nodes'[i].created_at = nodes[i].created_at
     /\ \A p \in Procs :
          (proc[p].req.op = "update_node" /\ ~Free(p)
             /\ proc'[p] # proc[p]) =>
            /\ DOMAIN nodes' = DOMAIN nodes
            /\ (Finishes(p) /\ proc'[p].res.status = 200) =>
                 /\ proc'[p].res.body.id = proc[p].req.id
                 /\ proc'[p].res.body.kind = nodes[proc[p].req.id].kind
                 /\ proc'[p].res.body.created_at =
                      nodes[proc[p].req.id].created_at]_vars

\* a node was updated with another payload, a second update of it was
\* refused, and it is stored with the payload of the first
C18_UpdatedAndRefused ==
  \E p \in Procs, q \in Procs :
    /\ Answered(p, "update_node", 200)
    /\ proc[p].req.payload = PayloadOff
    /\ Answered(q, "update_node", 400)
    /\ proc[q].req.id = proc[p].req.id
    /\ proc[p].req.id \in DOMAIN nodes
    /\ nodes[proc[p].req.id].payload = Jsonb(PayloadOff)

\* C19: in every reachable state both kinds of every stored edge kind are
\* registered kinds: deleting a kind deletes the edge kinds that name it
C19_EdgeKindsHaveKinds ==
  \A ek \in edges_kinds : ek[1] \in DOMAIN kinds /\ ek[2] \in DOMAIN kinds

\* an edge kind was registered, its to_kind was deleted afterwards, and the
\* edge kind is gone with it
C19_KindDeletedWithEdgeKind ==
  \E p \in Procs, q \in Procs :
    /\ Answered(p, "delete_kind", 200)
    /\ Answered(q, "create_edges_kind", 200)
    /\ proc[q].req.to_kind = proc[p].req.name
    /\ proc[q].req.from_kind # proc[p].req.name
    /\ proc[q].req.from_kind \in DOMAIN kinds
    /\ proc[p].req.name \notin DOMAIN kinds
    /\ EdgeKindOfRequest(proc[q].req) \notin edges_kinds

\* C20: create_edge answers 400, not 404, and stores no edge when the
\* from_id node or the to_id node does not exist; the endpoints are looked
\* up first, then the edge kind, and the write with its duplicate check
\* comes last
C20_CreateEdgeMissingEndpoint ==
  [][\A p \in Procs :
       (proc[p].req.op = "create_edge" /\ ~Free(p) /\ proc'[p] # proc[p]) =>
         LET r   == proc[p].req
             res == proc'[p].res
         IN  /\ r.from_id \notin DOMAIN nodes =>
                  /\ proc[p].pc = "ce_from"
                  /\ Finishes(p)
                  /\ res.status = 400
                  /\ res.detail = "from_id node not found"
                  /\ UNCHANGED store
             /\ (r.from_id \in DOMAIN nodes /\ r.to_id \notin DOMAIN nodes) =>
                  /\ proc[p].pc \in {"ce_from", "ce_to"}
                  /\ proc[p].pc = "ce_to" =>
                       /\ Finishes(p)
                       /\ res.status = 400
                       /\ res.detail = "to_id node not found"
                  /\ UNCHANGED store
             /\ Finishes(p) =>
                  /\ res.status # 404
                  /\ res.detail = "from_id node not found" =>
                       proc[p].pc = "ce_from"
                  /\ res.detail = "to_id node not found" =>
                       proc[p].pc = "ce_to"
                  /\ res.detail = "Edge relationship not allowed by edges-kinds"
                       => (proc[p].pc = "ce_allowed" /\ EndpointsStored(
                             EdgeOfRequest(r)))
                  /\ res.status = 409 =>
                       (proc[p].pc = "ce_commit"
                          /\ EndpointsStored(EdgeOfRequest(r))
                          /\ KindOfEdge(EdgeOfRequest(r)) \in edges_kinds)]_vars

\* one create_edge was answered 400 for a missing from_id node and another
\* 400 for a missing to_id node, and no edge is stored
C20_BothEndpointsMissed ==
  \E p \in Procs, q \in Procs :
    /\ Answered(p, "create_edge", 400)
    /\ proc[p].res.detail = "from_id node not found"
    /\ Answered(q, "create_edge", 400)
    /\ proc[q].res.detail = "to_id node not found"
    /\ edges = {}

\* C21: outgoing_edges and incoming_edges answer 404 when the node does not
\* exist and otherwise exactly the stored edges out of / into the node;
\* edges_between never fails, answers exactly the stored edges from from_id
\* to to_id, and the empty list when one of the nodes does not exist
C21_EdgeListings ==
  [][\A p \in Procs :
       /\ (Finishes(p) /\ proc[p].req.op \in {"outgoing_edges",
                                              "incoming_edges"}) =>
            LET id  == proc[p].req.node_id
                res == proc'[p].res
            IN  /\ id \notin DOMAIN nodes =>
                     /\ res.status = 404
                     /\ res.detail = "Node not found"
                /\ id \in DOMAIN nodes =>
                     /\ res.status = 200
                     /\ res.body.edges =
                          {e \in edges :
                             IF proc[p].req.op = "outgoing_edges"
                             THEN e[1] = id ELSE e[2] = id}
       /\ (proc'[p] # proc[p] /\ proc'[p].req.op = "edges_between") =>
            LET r   == proc'[p].req
                res == proc'[p].res
            IN  /\ res.status = 200
                /\ res.body.edges =
                     {e \in edges : e[1] = r.from_id /\ e[2] = r.to_id}
                /\ ~({r.from_id, r.to_id} \subseteq DOMAIN nodes) =>
                     res.body.edges = {}]_vars

\* the edges into a node were listed while it had one from another node,
\* and edges_between answered the empty list for a node that was deleted
C21_ListedAndEmpty ==
  \E p \in Procs, q \in Procs :
    /\ Answered(p, "incoming_edges", 200)
    /\ proc[p].res.body.edges = {<<1, 2, "link">>}
    /\ Answered(q, "edges_between", 200)
    /\ proc[q].req.from_id \notin DOMAIN nodes
    /\ proc[q].res.body.edges = {}

\* C22: create_attachment writes the metadata row only after the bytes were
\* written at its content-location key: with the node absent it answers 404
\* and writes neither bytes nor row, and when the byte write fails the
\* request ends there and no row is created
C22_BytesBeforeRow ==
  [][\A p \in Procs :
       (proc[p].req.op = "create_attachment" /\ ~Free(p)
          /\ proc'[p] # proc[p]) =>
         LET r == proc[p].req
         IN  /\ (proc[p].pc = "ca_node" /\ r.node_id \notin DOMAIN nodes) =>
                  /\ Finishes(p)
                  /\ proc'[p].res.status = 404
                  /\ proc'[p].res.detail = "Node not found"
                  /\ UNCHANGED <<store, files, nextAtt>>
             /\ (proc[p].pc = "ca_write" /\ ~byteStoreOk) =>
                  /\ Finishes(p)
                  /\ proc'[p].res.status = 500
                  /\ UNCHANGED store
             /\ attachments' # attachments =>
                  /\ proc[p].pc = "ca_commit"
                  /\ \A a \in DOMAIN attachments' \ DOMAIN attachments :
                       /\ a = proc[p].loc.id
                       /\ attachments'[a].file_path \in files
                       /\ attachments'[a].file_path = RelPath(r.node_id, a)
                  /\ \A a \in DOMAIN attachments :
                       a \in DOMAIN attachments'
                         /\ attachments'[a] = attachments[a]]_vars

\* a create_attachment for a deleted node was answered 404, another failed
\* at the byte write, and no row is stored
C22_NoRowWithoutBytes ==
  \E p \in Procs, q \in Procs :
    /\ Answered(p, "create_attachment", 404)
    /\ Answered(q, "create_attachment", 500)
    /\ proc[q].res.detail = "OSError"
    /\ DOMAIN attachments = {}

\* the insert of create_attachment's row is rejected by a constraint of the
\* attachments table: the node is gone (foreign key) or the file_path is
\* already stored (unique)
AttachmentRejected(p) ==
  /\ At(p, "create_attachment", "ca_commit")
  /\ \/ proc[p].req.node_id \notin DOMAIN nodes
     \/ \E a \in DOMAIN attachments :
          attachments[a].file_path = proc[p].loc.file_path

\* C23: when the metadata write of create_attachment is rejected by a store
\* constraint after the bytes were written, the bytes are removed, no row
\* exists for the attachment, and the answer is Conflict
C23_RejectedCreateCleansUp ==
  [][\A p \in Procs :
       (AttachmentRejected(p) /\ proc'[p] # proc[p]) =>
         /\ Finishes(p)
         /\ proc'[p].res.status = 409
         /\ proc[p].loc.id \notin DOMAIN attachments'
         /\ proc[p].loc.file_path \notin files']_vars

\* C23 as amended: the answer is Conflict and no row exists; the bytes are
\* gone when the byte store carried out the removal, and stay when it
\* failed it
C23_RejectedCreateCleansUpBestEffort ==
  [][\A p \in Procs :
       (AttachmentRejected(p) /\ proc'[p] # proc[p]) =>
         /\ Finishes(p)
         /\ proc'[p].res.status = 409
         /\ proc'[p].res.detail = "Attachment already exists"
         /\ proc[p].loc.id \notin DOMAIN attachments'
         /\ attachments' = attachments
         /\ byteStoreOk => proc[p].loc.file_path \notin files'
         /\ ~byteStoreOk => files' = files]_vars

\* a create_attachment whose node was deleted after its bytes were written
\* was answered Conflict, and neither row nor bytes remain
C23_RejectedAndCleaned ==
  \E p \in Procs, q \in Procs :
    /\ Answered(p, "create_attachment", 409)
    /\ Answered(q, "delete_node", 200)
    /\ proc[q].req.id = proc[p].req.node_id
    /\ nextAtt = 2
    /\ DOMAIN attachments = {}
    /\ files = {}

\* C24: a failure to remove the bytes never fails a delete: delete_attachment
\* of a stored attachment and delete_node of a stored node go through to
\* their commit, which removes the rows and answers success, also when the
\* byte store fails the removal
C24_DeletesSurviveByteFailure ==
  [][\A p \in Procs :
       (proc[p].req.op \in {"delete_attachment", "delete_node"} /\ ~Free(p)
          /\ proc'[p] # proc[p]) =>
         LET id == proc[p].req.id
         IN  /\ (proc[p].pc = "da_get" /\ id \in DOMAIN attachments) =>
                  proc'[p].pc = "da_commit"
             /\ proc[p].pc = "da_commit" =>
                  /\ Finishes(p)
                  /\ proc'[p].res.status = 200
                  /\ id \notin DOMAIN attachments'
             /\ (proc[p].pc = "dn_get" /\ id \in DOMAIN nodes) =>
                  proc'[p].pc = "dn_files"
             /\ proc[p].pc = "dn_files" => proc'[p].pc = "dn_commit"
             /\ proc[p].pc = "dn_commit" =>
                  /\ Finishes(p)
                  /\ proc'[p].res.status = 200
                  /\ id \notin DOMAIN nodes'
                  /\ \A a \in DOMAIN attachments' :
                       attachments'[a].node_id # id]_vars

\* an attachment and a node were deleted with success while the byte store
\* failed the removal: the row is gone and the bytes are still there
C24_DeletedWithBytesLeft ==
  \E p \in Procs, q \in Procs :
    /\ Answered(p, "delete_attachment", 200)
    /\ Answered(q, "delete_node", 200)
    /\ ~byteStoreOk
    /\ nextAtt = 2
    /\ DOMAIN attachments = {}
    /\ files # {}

\* C25: get_attachment answers NotFound when no row is stored, and NotFound
\* as well, not an internal error, when the row is stored and the byte store
\* has no bytes at its file_path; after a delete_attachment(id) that
\* succeeded, get_attachment(id) answers NotFound
C25_GetAttachmentNotFound ==
  [][\A p \in Procs :
       /\ (proc'[p] # proc[p] /\ proc'[p].req.op = "get_attachment") =>
            LET id  == proc'[p].req.id
                res == proc'[p].res
            IN  /\ proc'[p].pc = "done"
                /\ id \notin DOMAIN attachments =>
                     res.status = 404 /\ res.detail = "Attachment not found"
                /\ (id \in DOMAIN attachments
                      /\ attachments[id].file_path \notin files) =>
                     res.status = 404 /\ res.detail = "Attachment file missing"
                /\ (id \in DOMAIN attachments
                      /\ attachments[id].file_path \in files) =>
                     res.status = 200
       /\ (Finishes(p) /\ proc[p].req.op = "delete_attachment"
             /\ proc'[p].res.status = 200) =>
            \A id \in AttIds :
              id = proc[p].req.id =>
                /\ GetAttachmentResponse(id)'.status = 404
                /\ GetAttachmentResponse(id)'.detail = "Attachment not found"]_vars

\* a get of an attachment whose bytes were lost was answered NotFound, and
\* the attachment was deleted afterwards
C25_MissingBytesThenDeleted ==
  \E p \in Procs, q \in Procs :
    /\ Answered(p, "get_attachment", 404)
    /\ proc[p].res.detail = "Attachment file missing"
    /\ Answered(q, "delete_attachment", 200)
    /\ proc[q].req.id = proc[p].req.id
    /\ proc[p].req.id \notin DOMAIN attachments

\* the search request that was answered last to slot p
Searched(p) == proc[p].pc = "done" /\ proc[p].req.op = "search_nodes"

\* C26: search returns exactly the nodes that satisfy every predicate entry
\* and, when the kinds set is non-empty, whose kind is in the set; an absent
\* or empty kinds set restricts nothing, and an empty predicate map with a
\* kinds set returns all nodes of those kinds
C26_SearchConjunction ==
  [][\A p \in Procs :
       (proc'[p] # proc[p] /\ proc'[p].req.op = "search_nodes") =>
         LET r   == proc'[p].req
             res == proc'[p].res
             restricted == r.kinds.some /\ r.kinds.names # {}
             Satisfies(id) ==
               /\ restricted => nodes[id].kind \in r.kinds.names
               /\ \A i \in DOMAIN r.query :
                    ClauseValue(r.query[i][1], r.query[i][2],
                                nodes[id].payload) = "t"
             failing ==
               \E id \in DOMAIN nodes, i \in DOMAIN r.query :
                 ClauseValue(r.query[i][1], r.query[i][2],
                             nodes[id].payload) = "e"
         IN  /\ ~failing => res.status = 200
             /\ (res.status = 200 /\ ~r.limit.some) =>
                  res.body.nodes =
                    {NodeOut(id) : id \in {i \in DOMAIN nodes : Satisfies(i)}}
             /\ (r.query = <<>> /\ ~r.limit.some) =>
                  /\ res.status = 200
                  /\ res.body.nodes =
                       {NodeOut(id) :
                          id \in {i \in DOMAIN nodes :
                                    restricted =>
                                      nodes[i].kind \in r.kinds.names}}]_vars

\* a search of kind "a" by name and is_active returned the one node of the
\* two of that kind that satisfies both entries
C26_OneOfTwoSatisfiesBoth ==
  \E p \in Procs :
    /\ Searched(p)
    /\ proc[p].res.status = 200
    /\ proc[p].req.kinds = KindsOf({"a"})
    /\ proc[p].req.limit = NoLimit
    /\ Len(proc[p].req.query) = 2
    /\ \A id \in DOMAIN nodes : nodes[id].kind = "a"
    /\ nodes[2].payload = Jsonb(PayloadOff)
    /\ proc[p].res.body.nodes = {NodeOut(1)}

\* the characters foo of a pattern *foo*, when the target is such a pattern
\* and foo holds none of the characters *, % and _
Infix(val) == SubSeq(val.s, 2, Len(val.s) - 1)

IsInfixPattern(val) ==
  /\ val.t = "string"
  /\ Len(val.s) >= 3
  /\ val.s[1] = "*" /\ val.s[Len(val.s)] = "*"
  /\ \A i \in 2..(Len(val.s) - 1) : val.s[i] \notin {"*", "%", "_"}

\* text contains part, compared without regard to case
ContainsNoCase(text, part) ==
  \E i \in 1..(Len(text) - Len(part) + 1) :
    \A j \in 1..Len(part) : Lower(text[i + j - 1]) = Lower(part[j])

\* C27: a predicate {path: "*foo*"} matches exactly the nodes whose payload
\* value at the dot-path, rendered as text, contains foo compared without
\* regard to case, whatever other fields the payload has
C27_WildcardContains ==
  [][\A p \in Procs :
       (proc'[p] # proc[p] /\ proc'[p].req.op = "search_nodes"
          /\ Len(proc'[p].req.query) = 1
          /\ IsInfixPattern(proc'[p].req.query[1][2])
          /\ ~(proc'[p].req.kinds.some /\ proc'[p].req.kinds.names # {})
          /\ ~proc'[p].req.limit.some) =>
         LET path == Split(proc'[p].req.query[1][1])
             foo  == Infix(proc'[p].req.query[1][2])
             Has(id) ==
               LET x == jsonb_extract_path_text(nodes[id].payload, path)
               IN  ~x.null /\ ContainsNoCase(x.text, foo)
         IN  /\ proc'[p].res.status = 200
             /\ proc'[p].res.body.nodes =
                  {NodeOut(id) : id \in {i \in DOMAIN nodes : Has(i)}}]_vars

\* a search for *dA* under profile.bio returned the node whose bio is Ada
\* and not the node whose name is Ada
C27_NestedBioFound ==
  \E p \in Procs :
    /\ Searched(p)
    /\ proc[p].req.query = <<<<BioPath, Str(<<"*", "d", "A", "*">>)>>>>
    /\ proc[p].req.kinds = NoKinds
    /\ proc[p].req.limit = NoLimit
    /\ nodes[1].payload = Jsonb(PayloadOn)
    /\ nodes[2].payload = Jsonb(PayloadBio)
    /\ proc[p].res.status = 200
    /\ proc[p].res.body.nodes = {NodeOut(2)}

\* the payload has a value, JSON null included, at the dot-path
HasPath(payload, key) == ExtractPath(Obj(payload), Split(key)).found

\* C28: for a predicate whose target is not null (a string, a wildcard
\* string, a boolean, a number, an array or an object), a node whose payload
\* lacks the dot-path is never in the search result
C28_MissingPathNeverMatches ==
  [][\A p \in Procs :
       (proc'[p] # proc[p] /\ proc'[p].req.op = "search_nodes"
          /\ proc'[p].res.status = 200) =>
         \A i \in DOMAIN proc'[p].req.query :
           proc'[p].req.query[i][2].t # "null" =>
             \A id \in DOMAIN nodes :
               NodeOut(id) \in proc'[p].res.body.nodes =>
                 HasPath(nodes[id].payload, proc'[p].req.query[i][1])]_vars

\* a search for the list [1] under name returned the node that holds it and
\* not the node without a name
C28_NamelessNodeLeftOut ==
  \E p \in Procs :
    /\ Searched(p)
    /\ proc[p].req.query = <<<<KeyChars.name, Arr(<<Num(1)>>)>>>>
    /\ proc[p].req.kinds = NoKinds
    /\ proc[p].req.limit = NoLimit
    /\ nodes[1].payload = Jsonb(PayloadList)
    /\ nodes[2].payload = Jsonb(PayloadActiveText)
    /\ proc[p].res.status = 200
    /\ proc[p].res.body.nodes = {NodeOut(1)}

\* C29: a predicate with target null matches exactly the nodes whose payload
\* has JSON null at the dot-path or no value there, and no node with another
\* value there
C29_NullTargetMatchesNullOrAbsent ==
  [][\A p \in Procs :
       (proc'[p] # proc[p] /\ proc'[p].req.op = "search_nodes"
          /\ Len(proc'[p].req.query) = 1
          /\ proc'[p].req.query[1][2].t = "null"
          /\ ~(proc'[p].req.kinds.some /\ proc'[p].req.kinds.names # {})
          /\ ~proc'[p].req.limit.some) =>
         LET key == proc'[p].req.query[1][1]
             NullOrAbsent(id) ==
               \/ ~HasPath(nodes[id].payload, key)
               \/ ExtractPath(Obj(nodes[id].payload), Split(key)).v.t = "null"
         IN  /\ proc'[p].res.status = 200
             /\ proc'[p].res.body.nodes =
                  {NodeOut(id) :
                     id \in {i \in DOMAIN nodes : NullOrAbsent(i)}}]_vars

\* a search for null under profile.bio returned a node whose bio is null and
\* a node without profile, over two nodes of which neither has another bio
C29_NullAndAbsentFound ==
  \E p \in Procs :
    /\ Searched(p)
    /\ proc[p].req.query = <<<<BioPath, Null>>>>
    /\ proc[p].req.kinds = NoKinds
    /\ proc[p].req.limit = NoLimit
    /\ nodes[1].payload = Jsonb(PayloadList)
    /\ nodes[2].payload = Jsonb(PayloadOn)
    /\ proc[p].res.status = 200
    /\ proc[p].res.body.nodes = {NodeOut(1), NodeOut(2)}

\* the value at the dot-path of the payload of node id
ValueAt(id, key) == ExtractPath(Obj(nodes[id].payload), Split(key)).v

\* C30: a boolean target is compared as a boolean and never as the number
\* 1 / 0, and a number target as a decimal number: {path: true} returns
\* nodes with true at the path and no node with 1 there
C30_BooleanNeverNumber ==
  [][\A p \in Procs :
       (proc'[p] # proc[p] /\ proc'[p].req.op = "search_nodes"
          /\ proc'[p].res.status = 200) =>
         \A i \in DOMAIN proc'[p].req.query :
           LET key == proc'[p].req.query[i][1]
               val == proc'[p].req.query[i][2]
           IN  \A id \in DOMAIN nodes :
                 NodeOut(id) \in proc'[p].res.body.nodes =>
                   /\ val.t = "boolean" =>
                        /\ HasPath(nodes[id].payload, key)
                        /\ ValueAt(id, key).t # "number"
                        /\ ValueAt(id, key) = Bool(val.b)
                   /\ val.t = "number" =>
                        /\ HasPath(nodes[id].payload, key)
                        /\ ValueAt(id, key) = Num(val.n)]_vars

\* C31: a predicate whose target is an array or object matches a node only
\* when the text of the payload value at the path equals the text of the
\* target: an array target returns exactly the nodes that hold an array of
\* the same elements in the same order, and not the same elements in
\* another order
C31_StructuredTargetsByText ==
  [][\A p \in Procs :
       (proc'[p] # proc[p] /\ proc'[p].req.op = "search_nodes"
          /\ Len(proc'[p].req.query) = 1
          /\ proc'[p].req.query[1][2].t \in {"array", "object"}
          /\ ~(proc'[p].req.kinds.some /\ proc'[p].req.kinds.names # {})
          /\ ~proc'[p].req.limit.some) =>
         LET key == proc'[p].req.query[1][1]
             val == proc'[p].req.query[1][2]
             Same(id) ==
               /\ HasPath(nodes[id].payload, key)
               /\ ValueAt(id, key).t = val.t
               /\ val.t = "array" => ValueAt(id, key).a = val.a
               /\ val.t = "object" => ValueAt(id, key).o = val.o
         IN  /\ proc'[p].res.status = 200
             /\ proc'[p].res.body.nodes =
                  {NodeOut(id) : id \in {i \in DOMAIN nodes : Same(i)}}]_vars

\* a search for the list [0, 1] under name returned the node that holds
\* [0, 1] and not the node that holds [1, 0]
C31_OtherOrderLeftOut ==
  \E p \in Procs :
    /\ Searched(p)
    /\ proc[p].req.query = <<<<KeyChars.name, ZeroOne>>>>
    /\ proc[p].req.kinds = NoKinds
    /\ proc[p].req.limit = NoLimit
    /\ nodes[1].payload = Jsonb(PayloadOneZero)
    /\ nodes[2].payload = Jsonb(PayloadZeroOne)
    /\ proc[p].res.status = 200
    /\ proc[p].res.body.nodes = {NodeOut(2)}

\* C32: a search with limit = n returns at most n nodes, each of them in
\* the result of the same search without a limit, and all the matching nodes
\* when fewer than n match
C32_LimitTruncates ==
  [][\A p \in Procs :
       (proc'[p] # proc[p] /\ proc'[p].req.op = "search_nodes"
          /\ proc'[p].req.limit.some /\ proc'[p].res.status = 200) =>
         LET r == proc'[p].req
             n == r.limit.n
             Satisfies(id) ==
               /\ (r.kinds.some /\ r.kinds.names # {}) =>
                    nodes[id].kind \in r.kinds.names
               /\ \A i \in DOMAIN r.query :
                    ClauseValue(r.query[i][1], r.query[i][2],
                                nodes[id].payload) = "t"
             all == {NodeOut(id) : id \in {i \in DOMAIN nodes : Satisfies(i)}}
         IN  /\ Cardinality(proc'[p].res.body.nodes) <= n
             /\ proc'[p].res.body.nodes \subseteq all
             /\ Cardinality(all) < n => proc'[p].res.body.nodes = all
             /\ Cardinality(all) >= n =>
                  Cardinality(proc'[p].res.body.nodes) = n]_vars

\* a search with limit 1 that two nodes match returned one of them
C32_OneOfTwoReturned ==
  \E p \in Procs :
    /\ Searched(p)
    /\ proc[p].req.query = <<<<KeyChars.name, Str(Ada)>>>>
    /\ proc[p].req.limit = Limit(1)
    /\ proc[p].req.kinds = NoKinds
    /\ nodes[1].payload = Jsonb(PayloadOn)
    /\ nodes[2].payload = Jsonb(PayloadOff)
    /\ proc[p].res.status = 200
    /\ proc[p].res.body.nodes = {NodeOut(2)}

\* C33: in every reachable state, under any interleaving of node, edge and
\* attachment operations, both endpoint nodes of every stored edge and the
\* owning node of every stored attachment exist
C33_NoDanglingRows ==
  /\ \A e \in edges : e[1] \in DOMAIN nodes /\ e[2] \in DOMAIN nodes
  /\ \A a \in DOMAIN attachments : attachments[a].node_id \in DOMAIN nodes

\* a node was deleted after an attachment of it had been created, and the
\* attachment row went with it
C33_RowsWentWithNode ==
  \E p \in Procs, q \in Procs :
    /\ Answered(p, "delete_node", 200)
    /\ Answered(q, "create_attachment", 200)
    /\ proc[q].res.body.node_id = proc[p].req.id
    /\ proc[p].req.id \notin DOMAIN nodes
    /\ DOMAIN attachments = {}
    /\ edges = {}
    /\ nextAtt = 2

\* C34: create_edge answers Conflict only when an edge with the same
\* (from_id, to_id, relation) is stored at the time of its write; when an
\* endpoint node is deleted by a concurrent delete_node between the
\* existence check and the commit, the answer is not Conflict
C34_ConflictOnlyForDuplicate ==
  [][\A p \in Procs :
       (Finishes(p) /\ proc[p].req.op = "create_edge"
          /\ proc'[p].res.status = 409) =>
         <<proc[p].req.from_id, proc[p].req.to_id, proc[p].req.relation>>
           \in edges]_vars

\* C35: under any interleaving of create_attachment(node_id, ...) with
\* delete_node(node_id), once both have finished the byte store holds bytes
\* only at the file_path of stored attachment rows
C35_NoBytesLeftBehind ==
  \A p \in Procs, q \in Procs :
    (/\ proc[p].pc = "done" /\ proc[p].req.op = "create_attachment"
     /\ proc[q].pc = "done" /\ proc[q].req.op = "delete_node"
     /\ proc[q].req.id = proc[p].req.node_id) =>
      files \subseteq {attachments[a].file_path : a \in DOMAIN attachments}

\* C36: under any interleaving of the core operations every operation ends
\* in success or in one of the typed outcomes NotFound, Conflict,
\* ValidationFailed and InvalidOperation; create_node on a kind deleted
\* concurrently and delete_kind racing a create_node of that kind do not end
\* in an uncaught store error
C36_TypedOutcomesOnly ==
  \A p \in Procs :
    proc[p].pc = "done" => proc[p].res.status \in {200, 400, 404, 409}

\* C37: a search with a boolean or number target at a path answers a node
\* list, never an error, in every store state, also when a node holds at the
\* path a value whose text reads neither as a boolean nor as a number; such
\* nodes are not matched
C37_UnreadableValuesSkipped ==
  [][\A p \in Procs :
       (proc'[p] # proc[p] /\ proc'[p].req.op = "search_nodes"
          /\ \E i \in DOMAIN proc'[p].req.query :
               proc'[p].req.query[i][2].t \in {"boolean", "number"}) =>
         /\ proc'[p].res.status = 200
         /\ \A id \in DOMAIN nodes, i \in DOMAIN proc'[p].req.query :
              (/\ proc'[p].req.query[i][2].t \in {"boolean", "number"}
               /\ HasPath(nodes[id].payload, proc'[p].req.query[i][1])
               /\ ValueAt(id, proc'[p].req.query[i][1]).t
                    \notin {"boolean", "number", "null"}) =>
                NodeOut(id) \notin proc'[p].res.body.nodes]_vars

\* text matches glob when * stands for any characters and every other
\* character for itself, compared without regard to case
RECURSIVE GlobMatch(_, _)
GlobMatch(text, glob) ==
  IF glob = <<>> THEN text = <<>>
  ELSE IF Head(glob) = "*"
  THEN GlobMatch(text, Tail(glob))
         \/ (text # <<>> /\ GlobMatch(Tail(text), glob))
  ELSE /\ text # <<>>
       /\ Lower(Head(text)) = Lower(Head(glob))
       /\ GlobMatch(Tail(text), Tail(glob))

\* C38: in a wildcard string predicate * is the only wildcard and every
\* other character of the target, % and _ included, matches only itself
\* without regard to case: "a_c*" matches the value "a_cd" and not "abcd"
C38_StarIsTheOnlyWildcard ==
  [][\A p \in Procs :
       (proc'[p] # proc[p] /\ proc'[p].req.op = "search_nodes"
          /\ Len(proc'[p].req.query) = 1
          /\ proc'[p].req.query[1][2].t = "string"
          /\ (\E i \in DOMAIN proc'[p].req.query[1][2].s :
                proc'[p].req.query[1][2].s[i] = "*")
          /\ ~(proc'[p].req.kinds.some /\ proc'[p].req.kinds.names # {})
          /\ ~proc'[p].req.limit.some) =>
         LET path == Split(proc'[p].req.query[1][1])
             glob == proc'[p].req.query[1][2].s
             Has(id) ==
               LET x == jsonb_extract_path_text(nodes[id].payload, path)
               IN  ~x.null /\ GlobMatch(x.text, glob)
         IN  /\ proc'[p].res.status = 200
             /\ proc'[p].res.body.nodes =
                  {NodeOut(id) : id \in {i \in DOMAIN nodes : Has(i)}}]_vars
====
